---- MODULE Spec2Model ----
(***************************************************************************)
(* Model of the yt-short-clipper desktop application:                      *)
(*   - AutoClipperCore.process and the stages it drives                    *)
(*     (src/desktop-app/clipper_core.py),                                  *)
(*   - the worker wrapper YTShortClipperApp.run_processing and the cancel  *)
(*     button (src/desktop-app/app.py),                                    *)
(*   - the crop planner: the tracking pass of convert_to_portrait and      *)
(*     stabilize_positions.                                                *)
(* The external collaborators (yt-dlp, ffmpeg, the completion, speech and  *)
(* transcription services, the file system) are the environment: each call *)
(* has a nondeterministic outcome.                                         *)
(***************************************************************************)
EXTENDS Integers, Sequences, FiniteSets, TLC

(* ------------------------------ bounds -------------------------------- *)

\* largest num_clips a run is started with (the UI allows 1..10)
MaxClips == 3

\* largest number of candidates in one response of the completion service
MaxCands == 3

\* largest number of runs started in one session of the application
MaxRuns == 3

\* largest number of usage reports counted or waiting to be counted
MaxReports == 2

(* --------------------------- program constants ------------------------ *)

\* clipper_core.py:271  if duration >= 58
min_duration == 58

\* clipper_core.py:864  float: the significand of a binary64 number, in bits
MantissaBits == 53

\* clipper_core.py:298  total_steps default
total_steps == 4

VARIABLES
    \* ---- the worker thread: run_processing -> process -> process_clip
    pc,             \* position of the worker in the code
    num_clips,      \* argument of process()
    err,            \* message class of the exception that left process()
    temp_dir,       \* output/_temp exists (created by __init__)
    last_progress,  \* download_video's last_progress: <<>> or <<percent>>
    srt_path,       \* download_video's result: subtitle found
    downloader,     \* the yt-dlp process of download_video
    response,       \* the candidates find_highlights is applied to, when it is
                    \* studied on its own (<<>> otherwise)
    highlights,     \* find_highlights' result: the accepted candidates, each
                    \* named by its place in the service's response
    index,          \* loop variable i of process() / index of process_clip
    clips,          \* per clip directory: the artifacts it holds
    hook_video,     \* add_hook: temporary hook segment
    main_reencoded, \* add_hook: temporary re-encoded main clip
    concat_rc,      \* add_hook: return code of the stream-copy concat
    hook_duration,  \* add_hook: hook_duration, in milliseconds (0: not yet set)
    hook_built,     \* add_hook: the duration the hook segment was built with
    audio_file,     \* add_captions_api: extracted audio
    \* ---- the UI thread
    cancelled,      \* YTShortClipperApp.cancelled
    processing,     \* YTShortClipperApp.processing
    cancel_btn,     \* state of the Cancel button
    back_btn,       \* state of the Back button
    after_queue,    \* callbacks scheduled with self.after(0, ...), not yet run
    notified,       \* terminal callbacks the UI thread has run for the run that
                    \* Spec follows
    \* ---- observations (history)
    progress,       \* the last two fractions passed to set_progress
    log,            \* stage and step events in the order they happened
    labelled,       \* clip indices a progress label was issued for
    cancelSeenAt,   \* poll points that found the flag set
    cancelAtClip,   \* clip being processed when cancel was confirmed (0: none)
    flagAtEnd,      \* value of the flag read by run_processing at the end
    failedClip,     \* first clip with a failed non-caption transcoder call (0: none)
    capFailed,      \* a captioning failure happened in the current clip
    warned,         \* a captioning warning was logged in the current clip
    raisedIn,       \* step that raised the exception ("" if none)
    \* ---- the crop planner
    planPc,         \* position in the planner
    orig_w,         \* source width
    crop_w,         \* crop window width
    frames,         \* face boxes of the frames still to analyse
    current_target, \* twice the running horizontal target
    crop_positions, \* raw, then stabilized crop offsets
    raw_positions,  \* the raw offsets as the tracking pass left them
    stabilized,     \* stabilize_positions: the offsets after the moving median
    detected,       \* some frame analysed so far had a detection
    \* ---- the application window, over several runs
    page,           \* the page shown: "home", "processing" or "results"
    results_btn,    \* state of the View Results button
    token_usage,    \* YTShortClipperApp.token_usage (one counter)
    threads,        \* per run: its worker thread
    applied,        \* usage reports of the current run update_tokens has added
    cancelReq,      \* running runs the user asked to cancel
    \* ---- find_highlights and create_ass_subtitle_capcut, each on its own
    content,        \* find_highlights: response.choices[0].message.content
    items,          \* find_highlights: the list json.loads returned
    transcript,     \* create_ass_subtitle_capcut: transcript.words
    time_offset,    \* create_ass_subtitle_capcut: time_offset, in milliseconds
    events,         \* create_ass_subtitle_capcut: events
    \* ---- the line splitting of add_hook, on its own
    hook_text,      \* add_hook: hook_text, as words and white space
    hook_words,     \* add_hook: the words the loop has still to take
    current_line,   \* add_hook: current_line
    lines           \* add_hook: lines

workerVars == <<pc, num_clips, err, temp_dir, last_progress, srt_path, downloader,
                response, highlights, index, clips, hook_video, main_reencoded,
                concat_rc, hook_duration, hook_built, audio_file>>
uiVars == <<cancelled, processing, cancel_btn, back_btn, after_queue, notified>>
histVars == <<progress, log, labelled, cancelSeenAt, cancelAtClip, flagAtEnd,
              failedClip, capFailed, warned, raisedIn>>
planVars == <<planPc, orig_w, crop_w, frames, current_target, crop_positions,
              raw_positions, stabilized, detected>>
appVars == <<page, results_btn, token_usage, threads, applied, cancelReq>>
parseVars == <<content, items>>
captionVars == <<transcript, time_offset, events>>
wrapVars == <<hook_text, hook_words, current_line, lines>>
textVars == <<parseVars, captionVars, wrapVars>>
vars == <<workerVars, uiVars, histVars, planVars, appVars, textVars>>


dlVars == <<last_progress, srt_path, downloader>>
hlVars == <<highlights, response>>
hookVars == <<hook_video, main_reencoded, concat_rc, hook_duration, hook_built>>
clipHist == <<failedClip, capFailed, warned>>

(* ------------------------------ fractions ----------------------------- *)

\* a progress fraction n/d, kept exact
Frac(n, d) == [n |-> n, d |-> d]

Leq(a, b) == a.n * b.d <= b.n * a.d

InUnit(a) == 0 <= a.n /\ a.n <= a.d

\* progress_callback: the observer keeps the last two fractions it was given
set_progress(f) ==
    progress' = IF progress = <<>> THEN <<f>> ELSE <<progress[Len(progress)], f>>

\* download_video: 0.05 + float(percent) / 100 * 0.2
download_fraction(percent) == Frac(50 + 2 * percent, 1000)

\* process_clip.clip_progress, its exact value (`overall` below is the float that
\* the code computes):
\*   0.3 + 0.6 * (index - 1) / total_clips + (0.6 / total_clips) * (step_num / total_steps)
clip_fraction(i, total_clips, step_num) ==
    Frac(3 * total_steps * total_clips + 6 * (total_steps * (i - 1) + step_num),
         10 * total_steps * total_clips)

(* ------------------------------ files --------------------------------- *)

\* a file is absent, created empty (tempfile.NamedTemporaryFile), or present
\* with content (written by a transcoder call, whether it succeeded or not)
FileState == {"absent", "empty", "present"}

\* An ffmpeg invocation: with a missing or empty input it fails before it opens
\* its output; otherwise it may succeed, fail leaving a partial output, or fail
\* leaving no output.
TranscodeOutcomes(inputs) ==
    IF inputs \cap {"absent", "empty"} # {}
    THEN {[rc |-> 1, out |-> "none"]}
    ELSE {[rc |-> 0, out |-> "present"], [rc |-> 1, out |-> "present"],
          [rc |-> 1, out |-> "none"]}

\* the output path after an invocation (ffmpeg -y overwrites)
Written(old, r) == IF r.out = "none" THEN old ELSE r.out

NoClip == [dir |-> FALSE, landscape |-> "absent", portrait |-> "absent",
           hooked |-> "absent", master |-> "absent", data |-> FALSE, record |-> 0]

ClipIds == 1..MaxClips

(* ---------------------------- highlights ------------------------------ *)

\* A timestamp "HH:MM:SS,mmm" is named by its value in milliseconds.  The
\* candidates: 57.9 s, 58.0 s twice (starting at 00:00:10,000 and at
\* 00:00:06,100) and 200 s.
CandPool == {[start_time |-> 10000, end_time |-> 67900],
             [start_time |-> 10000, end_time |-> 68000],
             [start_time |-> 6100, end_time |-> 64100],
             [start_time |-> 10000, end_time |-> 210000]}

RECURSIVE SeqsUpTo(_, _)
SeqsUpTo(S, n) ==
    IF n = 0 THEN {<<>>}
    ELSE LET shorter == SeqsUpTo(S, n - 1)
         IN shorter \cup {Append(q, x) : q \in {r \in shorter : Len(r) = n - 1}, x \in S}

Responses == SeqsUpTo(CandPool, MaxCands)

(* Python floats.  A float is kept as a binary fixed-point number: the integer  *)
(* part ip and FracBits fraction bits fr (fr[k] weighs 2^-k), neg for a result  *)
(* below zero.  Every operation computes the exact result and rounds it to      *)
(* MantissaBits significant bits, ties to even, as binary64 arithmetic does.    *)

\* fraction bits kept; enough for every float >= 2^-11 (0.001 is one)
FracBits == 64

\* the bits f[1], f[2], ... as a sequence, its elements computed
Bits(f) == f \o <<>>

\* the number of bits of n
RECURSIVE nbits(_)
nbits(n) == IF n = 0 THEN 0 ELSE 1 + nbits(n \div 2)

\* 2^k modulo den
RECURSIVE pow2mod(_, _)
pow2mod(k, den) ==
    IF k = 0 THEN 1 % den
    ELSE IF k % 2 = 1 THEN (2 * pow2mod(k - 1, den)) % den
    ELSE (pow2mod(k \div 2, den) * pow2mod(k \div 2, den)) % den

\* the first n bits of r / den, 0 <= r < den, and what is left: bit k is the
\* carry of doubling the remainder r * 2^(k-1) mod den
expand(r, den, n) ==
    [bits |-> Bits([k \in 1..n |->
                  IF 2 * ((r * pow2mod(k - 1, den)) % den) >= den THEN 1 ELSE 0]),
     rem |-> (r * pow2mod(n, den)) % den]

\* the place of the first 1 of fr (0: none)
lead_frac(fr) ==
    LET ones == {k \in DOMAIN fr : fr[k] = 1}
    IN IF ones = {} THEN 0 ELSE CHOOSE k \in ones : \A j \in ones : k <= j

\* the number of fraction bits a float with this value keeps
kept(ip, fr) ==
    IF ip > 0 THEN MantissaBits - nbits(ip)
    ELSE IF lead_frac(fr) = 0 THEN FracBits
    ELSE lead_frac(fr) + MantissaBits - 1

\* fr plus 2^-k: the ones that end at bit k become zeros and the zero before
\* them a one; carry is what goes into the integer part
carry_into(fr, k) ==
    LET zeros == {j \in 1..k : fr[j] = 0}
        z == IF zeros = {} THEN 0 ELSE CHOOSE j \in zeros : \A i \in zeros : i <= j
    IN [fr |-> Bits([j \in 1..FracBits |->
                        IF j = z THEN 1 ELSE IF z < j /\ j <= k THEN 0 ELSE fr[j]]),
        carry |-> IF z = 0 THEN 1 ELSE 0]

\* round to nearest, ties to even; sticky: the exact value has more below fr
to_float(ip, fr, sticky) ==
    LET K == kept(ip, fr)
    IN IF K >= FracBits THEN [neg |-> FALSE, ip |-> ip, fr |-> fr]
       ELSE LET half == fr[K + 1] = 1
                below == sticky \/ \E j \in (K + 2)..FracBits : fr[j] = 1
                odd == IF K = 0 THEN ip % 2 = 1 ELSE fr[K] = 1
                cut == Bits([k \in 1..FracBits |-> IF k <= K THEN fr[k] ELSE 0])
                inc == carry_into(cut, K)
            IN IF half /\ (below \/ odd)
               THEN [neg |-> FALSE, ip |-> ip + inc.carry, fr |-> inc.fr]
               ELSE [neg |-> FALSE, ip |-> ip, fr |-> cut]

\* float("SS.mmm"): the float nearest to ms / 1000
float_of_decimal(ms) ==
    LET e == expand(ms % 1000, 1000, FracBits)
    IN to_float(ms \div 1000, e.bits, e.rem # 0)

\* n + x for an int n >= 0 and a float x >= 0
float_add_int(n, x) == to_float(n + x.ip, x.fr, FALSE)

\* a < b for floats >= 0
float_less(a, b) ==
    \/ a.ip < b.ip
    \/ /\ a.ip = b.ip
       /\ \E k \in 1..FracBits :
            a.fr[k] < b.fr[k] /\ \A j \in 1..(k - 1) : a.fr[j] = b.fr[j]

\* the borrow taken from bit k - 1 by the subtraction of the bits k.. of b from
\* those of a: one when the bits k.. of a are the smaller number
borrow(a, b, k) ==
    IF \E j \in k..FracBits : a[j] < b[j] /\ \A i \in k..(j - 1) : a[i] = b[i]
    THEN 1 ELSE 0

\* a - b for floats >= 0
float_sub(a, b) ==
    IF float_less(a, b)
    THEN [neg |-> TRUE, ip |-> 0, fr |-> a.fr]
    ELSE to_float(a.ip - b.ip - borrow(a.fr, b.fr, 1),
                  Bits([k \in 1..FracBits |->
                      (a.fr[k] - b.fr[k] - borrow(a.fr, b.fr, k + 1) + 2) % 2]),
                  FALSE)

\* x >= n for a float x and an int n >= 0
float_geq_int(x, n) == ~x.neg /\ x.ip >= n

\* parse_timestamp, lines 860-864:
\*   int(parts[0]) * 3600 + int(parts[1]) * 60 + float(parts[2])
parse_timestamp(ts) ==
    float_add_int((ts \div 3600000) * 3600 + ((ts \div 60000) % 60) * 60,
                  float_of_decimal(ts % 60000))

\* find_highlights, line 269
duration(h) == float_sub(parse_timestamp(h.end_time), parse_timestamp(h.start_time))

\* bit k of fr, zero beyond its end
bit(fr, k) == IF k \in DOMAIN fr THEN fr[k] ELSE 0

\* ten times the fraction fr is 8 fr + 2 fr, the sum of fr shifted by three and
\* by one: the carry of that sum into bit k - 1
ten_carry(fr, k) ==
    IF \E j \in k..FracBits :
          /\ bit(fr, j + 3) = 1 /\ bit(fr, j + 1) = 1
          /\ \A i \in k..(j - 1) : bit(fr, i + 3) = 1 \/ bit(fr, i + 1) = 1
    THEN 1 ELSE 0

\* ten times the fraction fr: the fraction bits of the product and its integer
\* part
times_ten(fr) ==
    [fr |-> Bits([k \in 1..FracBits |->
                    (bit(fr, k + 3) + bit(fr, k + 1) + ten_carry(fr, k + 1)) % 2]),
     carry |-> 4 * fr[1] + 2 * fr[2] + fr[3] + fr[1] + ten_carry(fr, 1)]

\* find_highlights, line 270: round(duration, 1), in tenths of a second
\* (round() of Python rounds the exact value of the float, ties to even)
round_tenths(x) ==
    LET p == times_ten(x.fr)
        whole == 10 * x.ip + p.carry
        half == p.fr[1] = 1
        below == \E j \in 2..FracBits : p.fr[j] = 1
    IN IF half /\ (below \/ whole % 2 = 1) THEN whole + 1 ELSE whole

\* find_highlights, line 271: the duration test, for every candidate of the pool
accepted == [h \in CandPool |-> float_geq_int(duration(h), min_duration)]

\* find_highlights, line 270: h["duration_seconds"], in tenths of a second
duration_seconds == [h \in CandPool |-> round_tenths(duration(h))]

\* mutant: an accepted candidate is put in front of the earlier ones
accept_first(valid, k) == <<k>> \o valid

\* find_highlights, line 272: valid.append(h)
accept(valid, k) == Append(valid, k)

\* the filter loop of find_highlights over candidates k.. with `valid` accepted
\* so far; the result lists the accepted candidates by their place in the response
RECURSIVE filter_loop(_, _, _, _)
filter_loop(cands, k, valid, n) ==
    IF k > Len(cands) THEN valid
    ELSE LET v == IF accepted[cands[k]]
                  THEN accept(valid, k) ELSE valid
         IN IF Len(v) >= n THEN v ELSE filter_loop(cands, k + 1, v, n)

\* find_highlights: return valid[:num_clips]
find_highlights(cands, n) ==
    LET valid == filter_loop(cands, 1, <<>>, n)
    IN SubSeq(valid, 1, IF Len(valid) < n THEN Len(valid) ELSE n)

(* ------------------------------ events -------------------------------- *)

\* an event of a stage (clip = 0) or of a step of clip number `clip`, which works
\* on the highlight highlights[clip]
Event(stage, clip, hl) == [stage |-> stage, clip |-> clip, hl |-> hl]

Logged(stage, clip) ==
    log' = Append(log, Event(stage, clip, IF clip = 0 THEN 0 ELSE highlights[clip]))

\* mutant: the default cancel_check of AutoClipperCore, lambda: False
never_cancelled == FALSE

\* run_processing, line 600: cancel_check = lambda: self.cancelled, polled by the
\* worker
is_cancelled == cancelled

Seen(point) == cancelSeenAt' = cancelSeenAt \cup {point}

\* an exception leaves process()
Raise(step, msg) == pc' = "raised" /\ err' = msg /\ raisedIn' = step

(* ------------------------------- Init --------------------------------- *)

\* the planner is not running
PlanIdle ==
    /\ planPc = "off"
    /\ orig_w = 0
    /\ crop_w = 0
    /\ frames = <<>>
    /\ current_target = 0
    /\ crop_positions = <<>>
    /\ raw_positions = <<>>
    /\ stabilized = <<>>
    /\ detected = FALSE

\* find_highlights is not reading a message
ParseIdle ==
    /\ content = <<>>
    /\ items = <<>>

\* create_ass_subtitle_capcut is not running
CaptionIdle ==
    /\ transcript = <<>>
    /\ time_offset = 0
    /\ events = <<>>

\* add_hook is not splitting a text
WrapIdle ==
    /\ hook_text = <<>>
    /\ hook_words = <<>>
    /\ current_line = <<>>
    /\ lines = <<>>

TextIdle == ParseIdle /\ CaptionIdle /\ WrapIdle

\* the worker has constructed AutoClipperCore (which creates output/_temp)
CoreInit ==
    /\ err = ""
    /\ temp_dir = TRUE
    /\ last_progress = <<>>
    /\ srt_path = FALSE
    /\ downloader = "none"
    /\ highlights = <<>>
    /\ index = 0
    /\ clips = [j \in ClipIds |-> NoClip]
    /\ hook_video = "absent"
    /\ main_reencoded = "absent"
    /\ concat_rc = 0
    /\ hook_duration = 0
    /\ hook_built = 0
    /\ audio_file = "absent"
    /\ progress = <<>>
    /\ log = <<>>
    /\ labelled = {}
    /\ cancelSeenAt = {}
    /\ cancelAtClip = 0
    /\ flagAtEnd = FALSE
    /\ failedClip = 0
    /\ capFailed = FALSE
    /\ warned = FALSE
    /\ raisedIn = ""

\* start_processing has reset the UI and started the worker
RunInit ==
    /\ CoreInit
    /\ response = <<>>
    /\ cancelled = FALSE
    /\ processing = TRUE
    /\ cancel_btn = "normal"
    /\ back_btn = "disabled"
    /\ after_queue = <<>>
    /\ notified = <<>>

Runs == 1..MaxRuns

\* threading.Thread(target=self.run_processing, ...): not started yet
NoThread == "none"

\* the window during the run that Spec follows
AppIdle ==
    /\ page = "processing"
    /\ results_btn = "disabled"
    /\ token_usage = 0
    /\ threads = [r \in Runs |-> NoThread]
    /\ applied = 0
    /\ cancelReq = {}

\* the run the window shows: the last one started (0: none yet)
current_run == Cardinality({r \in Runs : threads[r] # NoThread})

Init ==
    /\ pc = "process"
    /\ num_clips \in 1..MaxClips
    /\ RunInit
    /\ PlanIdle
    /\ TextIdle
    /\ AppIdle

(* ----------------------- process: download stage ---------------------- *)

\* process, line 57: set_progress("Downloading video...", 0.1)
process ==
    /\ pc = "process"
    /\ set_progress(Frac(1, 10))
    /\ pc' = "download_video"
    /\ UNCHANGED <<num_clips, err, temp_dir, dlVars, hlVars, index, clips, hookVars,
                   audio_file, uiVars, log, labelled, cancelSeenAt, cancelAtClip,
                   flagAtEnd, clipHist, raisedIn, planVars, appVars, textVars>>

\* download_video, lines 93-140: the metadata call (its result is optional) and
\* the start of the downloader process
download_video ==
    /\ pc = "download_video"
    /\ pc' = "dl_poll"
    /\ last_progress' = <<>>
    /\ downloader' = "running"
    /\ Logged("download", 0)
    /\ UNCHANGED <<num_clips, err, temp_dir, srt_path, hlVars, index, clips,
                   hookVars, audio_file, uiVars, progress, labelled, cancelSeenAt,
                   cancelAtClip, flagAtEnd, clipHist, raisedIn, planVars, appVars, textVars>>

\* mutant: the downloader is signalled but not waited for
terminate_only == downloader' = "terminated"

\* download_video, lines 146-147: process.terminate(); process.wait()
terminate_and_wait == downloader' = "reaped"

\* download_video, lines 144-148: the poll at the head of the read loop
download_poll ==
    /\ pc = "dl_poll"
    /\ IF is_cancelled
       THEN /\ terminate_and_wait
            /\ Raise("download_video", "Cancelled by user")
            /\ Seen("download")
       ELSE pc' = "dl_read" /\ UNCHANGED <<err, raisedIn, cancelSeenAt, downloader>>
    /\ UNCHANGED <<num_clips, temp_dir, last_progress, srt_path, hlVars, index, clips, hookVars,
                   audio_file, uiVars, progress, log, labelled, cancelAtClip,
                   flagAtEnd, clipHist, planVars, appVars, textVars>>

\* percentages the downloader may print
Percents == {0, 40, 100}

\* download_video, lines 150-167: a "[download] ...%" line
download_percent ==
    /\ pc = "dl_read"
    /\ \E percent \in Percents :
         IF <<percent>> # last_progress
         THEN set_progress(download_fraction(percent)) /\ last_progress' = <<percent>>
         ELSE UNCHANGED <<progress, last_progress>>
    /\ pc' = "dl_poll"
    /\ UNCHANGED <<num_clips, err, temp_dir, srt_path, downloader, hlVars, index, clips,
                   hookVars, audio_file, uiVars, log, labelled, cancelSeenAt,
                   cancelAtClip, flagAtEnd, clipHist, raisedIn, planVars, appVars, textVars>>

\* download_video, lines 168-170: a "[Merger]" line
download_merge ==
    /\ pc = "dl_read"
    /\ set_progress(Frac(25, 100))
    /\ pc' = "dl_poll"
    /\ UNCHANGED <<num_clips, err, temp_dir, dlVars, hlVars, index, clips, hookVars,
                   audio_file, uiVars, log, labelled, cancelSeenAt, cancelAtClip,
                   flagAtEnd, clipHist, raisedIn, planVars, appVars, textVars>>

\* download_video, lines 150-156: any other line, or an empty one
download_other ==
    /\ pc = "dl_read"
    /\ pc' = "dl_poll"
    /\ UNCHANGED <<num_clips, err, temp_dir, dlVars, hlVars, index, clips, hookVars,
                   audio_file, uiVars, histVars, planVars, appVars, textVars>>

\* download_video, lines 151-182: end of output; the return code decides, then
\* the subtitle file is looked for
download_exit ==
    /\ pc = "dl_read"
    /\ \E returncode \in {0, 1}, srt \in BOOLEAN :
         IF returncode # 0
         THEN Raise("download_video", "Download failed!") /\ UNCHANGED srt_path
         ELSE pc' = "after_download" /\ srt_path' = srt /\ UNCHANGED <<err, raisedIn>>
    /\ downloader' = "exited"
    /\ UNCHANGED <<num_clips, temp_dir, last_progress, hlVars, index, clips,
                   hookVars, audio_file, uiVars, progress, log, labelled,
                   cancelSeenAt, cancelAtClip, flagAtEnd, clipHist, planVars, appVars, textVars>>

\* mutant: a missing subtitle is not noticed
subtitle_unchecked(srt) == FALSE

\* process, line 63: if not srt_path
no_subtitle(srt) == ~srt

\* process, lines 60-68: the poll after the download, the subtitle check,
\* set_progress("Finding highlights...", 0.3) and parse_srt
after_download ==
    /\ pc = "after_download"
    /\ IF is_cancelled
       THEN pc' = "returned" /\ Seen("after_download")
            /\ UNCHANGED <<err, raisedIn, progress>>
       ELSE IF no_subtitle(srt_path)
       THEN Raise("process", "No Indonesian subtitle found!")
            /\ UNCHANGED <<cancelSeenAt, progress>>
       ELSE pc' = "find_highlights" /\ set_progress(Frac(3, 10))
            /\ UNCHANGED <<err, raisedIn, cancelSeenAt>>
    /\ UNCHANGED <<num_clips, temp_dir, dlVars, hlVars, index, clips, hookVars,
                   audio_file, uiVars, log, labelled, cancelAtClip, flagAtEnd,
                   clipHist, planVars, appVars, textVars>>


(* --------------------- process: highlight selection ------------------- *)

runVars == <<num_clips, temp_dir, last_progress, srt_path, downloader>>

\* messages of the errors the client of the completion service may raise; the
\* text comes from the service
ServiceErrors == {"API error", "Subscription CANCELED"}

\* process, line 69, and find_highlights: the completion request may raise,
\* its payload may fail json.loads, or it is a list of candidates to filter
find_highlights_stage ==
    /\ pc = "find_highlights"
    /\ Logged("highlights", 0)
    /\ \/ /\ \E msg \in ServiceErrors \cup {"JSONDecodeError"} :
               Raise("find_highlights", msg)
          /\ UNCHANGED hlVars
       \/ /\ \E r \in Responses : highlights' = find_highlights(r, num_clips)
          /\ pc' = "after_find"
          /\ UNCHANGED <<err, raisedIn, response>>
    /\ UNCHANGED <<runVars, index, clips, hookVars, audio_file, uiVars, progress,
                   labelled, cancelSeenAt, cancelAtClip, flagAtEnd, clipHist,
                   planVars, appVars, textVars>>

\* mutant: an empty selection is not noticed
highlights_unchecked(hs) == FALSE

\* process, line 74: if not highlights
no_highlights(hs) == hs = <<>>

\* process, lines 71-79: the poll after highlight selection, the empty check and
\* the start of the clip loop
after_find ==
    /\ pc = "after_find"
    /\ IF is_cancelled
       THEN pc' = "returned" /\ Seen("after_find") /\ UNCHANGED <<err, raisedIn, index>>
       ELSE IF no_highlights(highlights)
       THEN Raise("process", "No valid highlights found!")
            /\ UNCHANGED <<cancelSeenAt, index>>
       ELSE pc' = "loop" /\ index' = 1 /\ UNCHANGED <<err, raisedIn, cancelSeenAt>>
    /\ UNCHANGED <<runVars, hlVars, clips, hookVars, audio_file, uiVars, progress,
                   log, labelled, cancelAtClip, flagAtEnd, clipHist, planVars, appVars, textVars>>

(* ------------------------ process: the clip loop ---------------------- *)

\* mutant: the loop skips every other highlight
next_index_skipping(i) == i + 2

\* for i, highlight in enumerate(highlights, 1): the index after clip i
next_index(i) == i + 1

\* process, lines 79-82: one turn of the loop head
clip_loop ==
    /\ pc = "loop"
    /\ IF index > Len(highlights)
       THEN pc' = "cleanup" /\ UNCHANGED cancelSeenAt
       ELSE IF is_cancelled
       THEN pc' = "returned" /\ Seen("before_clip")
       ELSE pc' = "process_clip" /\ UNCHANGED cancelSeenAt
    /\ UNCHANGED <<runVars, hlVars, err, index, clips, hookVars, audio_file, uiVars,
                   progress, log, labelled, cancelAtClip, flagAtEnd, clipHist,
                   raisedIn, planVars, appVars, textVars>>

\* the locals of process_clip and of the functions it called
clipLocals == <<concat_rc, hook_duration, hook_built, time_offset, audio_file, capFailed,
                warned>>

\* process_clip returns to the loop of process; its locals are gone
clip_return ==
    /\ pc' = "loop"
    /\ index' = next_index(index)
    /\ concat_rc' = 0
    /\ hook_duration' = 0
    /\ hook_built' = 0
    /\ time_offset' = 0
    /\ audio_file' = "absent"
    /\ capFailed' = FALSE
    /\ warned' = FALSE

\* process_clip, lines 283-290: the poll on entry, then the clip directory
process_clip ==
    /\ pc = "process_clip"
    /\ IF is_cancelled
       THEN clip_return /\ Seen("clip_entry") /\ UNCHANGED clips
       ELSE /\ pc' = "step1"
            /\ clips' = [clips EXCEPT ![index].dir = TRUE]
            /\ UNCHANGED <<index, cancelSeenAt, clipLocals>>
    /\ UNCHANGED <<runVars, hlVars, err, hook_video, main_reencoded, uiVars,
                   progress, log, labelled, cancelAtClip, flagAtEnd, failedClip,
                   raisedIn, planVars,
                   appVars, parseVars, transcript, events, wrapVars>>

\* process_clip.clip_progress
clip_progress(step_num) ==
    /\ set_progress(clip_fraction(index, Len(highlights), step_num))
    /\ labelled' = labelled \cup {index}

\* process_clip, lines 307-309, 323-325, 331-333, 340-342: the poll before a
\* step and the step's progress label
step_poll(at, step_num, to) ==
    /\ pc = at
    /\ IF is_cancelled
       THEN clip_return /\ Seen(at) /\ UNCHANGED <<progress, labelled>>
       ELSE /\ pc' = to
            /\ clip_progress(step_num)
            /\ UNCHANGED <<index, cancelSeenAt, clipLocals>>
    /\ UNCHANGED <<runVars, hlVars, err, clips, hook_video, main_reencoded, uiVars,
                   log, cancelAtClip, flagAtEnd, failedClip, raisedIn, planVars,
                   appVars, parseVars, transcript, events, wrapVars>>

step1 == step_poll("step1", 0, "cut")
step2 == step_poll("step2", 1, "convert_to_portrait")
step3 == step_poll("step3", 2, "add_hook")
step4 == step_poll("step4", 3, "add_captions_api")

\* a transcoder call of a non-caption step: its return code is not looked at
Failed(r) ==
    failedClip' = IF r.rc # 0 /\ failedClip = 0 THEN index ELSE failedClip

\* process_clip, lines 310-320: cut the highlight out of the source video
cut ==
    /\ pc = "cut"
    /\ \E r \in TranscodeOutcomes({"present"}) :
         /\ clips' = [clips EXCEPT ![index].landscape = Written(@, r)]
         /\ Failed(r)
    /\ Logged("cut", index)
    /\ pc' = "step2"
    /\ UNCHANGED <<runVars, hlVars, err, index, hookVars, audio_file, uiVars,
                   progress, labelled, cancelSeenAt, cancelAtClip, flagAtEnd,
                   capFailed, warned, raisedIn, planVars, appVars, textVars>>

\* convert_to_portrait, lines 370-445: the two frame passes write temp_video,
\* which is merged with the audio of the landscape clip
convert_to_portrait ==
    /\ pc = "convert_to_portrait"
    /\ \E r \in TranscodeOutcomes({"present", clips[index].landscape}) :
         /\ clips' = [clips EXCEPT ![index].portrait = Written(@, r)]
         /\ Failed(r)
    /\ Logged("portrait", index)
    /\ pc' = "step3"
    /\ UNCHANGED <<runVars, hlVars, err, index, hookVars, audio_file, uiVars,
                   progress, labelled, cancelSeenAt, cancelAtClip, flagAtEnd,
                   capFailed, warned, raisedIn, planVars, appVars, textVars>>


(* ------------------------------ add_hook ------------------------------ *)

\* clipper_core.py:523  the padding added to the probed duration, in milliseconds
hook_padding == 500

\* clipper_core.py:525  hook_duration when the probe shows no duration, in
\* milliseconds
default_hook_duration == 3000

\* durations of the speech the probe may show, in milliseconds
SpeechDurations == {2700, 4180}

\* what the probe of the speech file shows: no "Duration:" line, or a duration
Probes == {<<>>} \cup {<<d>> : d \in SpeechDurations}

\* mutant: the padding is forgotten
unpadded(probe) == IF probe # <<>> THEN probe[1] ELSE default_hook_duration

\* add_hook, lines 519-525
probed_duration(probe) ==
    IF probe # <<>> THEN probe[1] + hook_padding ELSE default_hook_duration

\* add_hook, lines 498-558: the speech request (which may raise), the duration
\* probe (padded duration, or the default when the probe finds none)
add_hook ==
    /\ pc = "add_hook"
    /\ Logged("hook", index)
    /\ \/ Raise("add_hook", "TTS error") /\ UNCHANGED hook_duration
       \/ /\ \E probe \in Probes : hook_duration' = probed_duration(probe)
          /\ pc' = "hook_build"
          /\ UNCHANGED <<err, raisedIn>>
    /\ UNCHANGED <<runVars, hlVars, index, clips, hook_video, main_reencoded, hook_built,
                   concat_rc, audio_file, uiVars, progress, labelled, cancelSeenAt,
                   cancelAtClip, flagAtEnd, clipHist, planVars, appVars, textVars>>

\* add_hook, lines 558-612: the hook segment is built into a fresh temp file
hook_build ==
    /\ pc = "hook_build"
    /\ \E r \in TranscodeOutcomes({clips[index].portrait, "present"}) :
         /\ hook_video' = Written("empty", r)
         /\ Failed(r)
    /\ hook_built' = hook_duration
    /\ pc' = "hook_reencode"
    /\ UNCHANGED <<runVars, hlVars, err, index, clips, main_reencoded, concat_rc,
                   hook_duration, audio_file, uiVars, progress, log, labelled,
                   cancelSeenAt, cancelAtClip, flagAtEnd, capFailed, warned,
                   raisedIn, planVars, appVars, textVars>>

\* add_hook, lines 614-631: the main clip is re-encoded into a fresh temp file
hook_reencode ==
    /\ pc = "hook_reencode"
    /\ \E r \in TranscodeOutcomes({clips[index].portrait}) :
         /\ main_reencoded' = Written("empty", r)
         /\ Failed(r)
    /\ pc' = "hook_concat"
    /\ UNCHANGED <<runVars, hlVars, err, index, clips, hook_video, concat_rc,
                   hook_duration, hook_built, audio_file, uiVars, progress, log, labelled,
                   cancelSeenAt, cancelAtClip, flagAtEnd, capFailed, warned,
                   raisedIn, planVars, appVars, textVars>>

\* mutant: the filter graph runs whatever the stream copy reported
always_fallback(returncode) == TRUE

\* add_hook, line 650: the fallback runs when the stream copy reported failure
needs_fallback(returncode) == returncode # 0

\* add_hook, lines 633-650: concatenation with the concat demuxer (stream copy)
hook_concat ==
    /\ pc = "hook_concat"
    /\ \E r \in TranscodeOutcomes({hook_video, main_reencoded}) :
         /\ clips' = [clips EXCEPT ![index].hooked = Written(@, r)]
         /\ concat_rc' = r.rc
         /\ pc' = IF needs_fallback(r.rc) THEN "hook_fallback" ELSE "hook_cleanup"
    /\ UNCHANGED <<runVars, hlVars, err, index, hook_video, main_reencoded,
                   hook_duration, hook_built, audio_file, uiVars, histVars, planVars,
                   appVars, textVars>>

\* add_hook, lines 651-666: concatenation with a filter graph
hook_fallback ==
    /\ pc = "hook_fallback"
    /\ \E r \in TranscodeOutcomes({hook_video, main_reencoded}) :
         /\ clips' = [clips EXCEPT ![index].hooked = Written(@, r)]
         /\ Failed(r)
    /\ pc' = "hook_cleanup"
    /\ UNCHANGED <<runVars, hlVars, err, index, hookVars, audio_file, uiVars,
                   progress, log, labelled, cancelSeenAt, cancelAtClip, flagAtEnd,
                   capFailed, warned, raisedIn, planVars, appVars, textVars>>

\* add_hook, lines 668-674: the temp files are removed, the duration returned
hook_cleanup ==
    /\ pc = "hook_cleanup"
    /\ hook_video' = "absent"
    /\ main_reencoded' = "absent"
    /\ concat_rc' = 0
    /\ pc' = "step4"
    /\ UNCHANGED <<runVars, hlVars, err, index, clips, hook_duration, hook_built, audio_file,
                   uiVars, histVars, planVars, appVars, textVars>>

(* -------------------------- add_captions_api -------------------------- *)

\* a captioning failure: the warning is logged, then
\* shutil.copy(input_path, output_path), which raises when the hooked video is
\* missing, and add_captions_api returns
uncaptioned ==
    /\ capFailed' = TRUE
    /\ warned' = TRUE
    /\ IF clips[index].hooked = "absent"
       THEN Raise("add_captions_api", "FileNotFoundError") /\ UNCHANGED clips
       ELSE /\ clips' = [clips EXCEPT ![index].master = clips[index].hooked]
            /\ pc' = "clip_done"
            /\ UNCHANGED <<err, raisedIn>>

\* add_captions_api, lines 686-706: the audio of the portrait clip is extracted
\* into a fresh temp file
add_captions_api ==
    /\ pc = "add_captions_api"
    /\ Logged("captions", index)
    /\ time_offset' = hook_duration
    /\ \E r \in TranscodeOutcomes({clips[index].portrait}) :
         /\ audio_file' = Written("empty", r)
         /\ IF r.rc # 0
            THEN uncaptioned
            ELSE pc' = "cap_check" /\ UNCHANGED <<clips, err, raisedIn, capFailed, warned>>
    /\ UNCHANGED <<runVars, hlVars, index, hookVars, uiVars, progress, labelled,
                   cancelSeenAt, cancelAtClip, flagAtEnd, failedClip, planVars,
                   appVars, parseVars, transcript, events, wrapVars>>

\* add_captions_api, lines 708-725: the extracted audio may be missing or too
\* small; otherwise its duration is probed and reported
cap_check ==
    /\ pc = "cap_check"
    /\ \E small \in BOOLEAN :
         IF small \/ audio_file \in {"absent", "empty"}
         THEN uncaptioned /\ audio_file' = "absent"
         ELSE pc' = "cap_transcribe"
              /\ UNCHANGED <<clips, err, raisedIn, capFailed, warned, audio_file>>
    /\ UNCHANGED <<runVars, hlVars, index, hookVars, uiVars, progress, log, labelled,
                   cancelSeenAt, cancelAtClip, flagAtEnd, failedClip, planVars, appVars, textVars>>

\* add_captions_api, lines 727-748: the transcription request may raise; the
\* audio file is removed either way
cap_transcribe ==
    /\ pc = "cap_transcribe"
    /\ audio_file' = "absent"
    /\ \/ uncaptioned
       \/ pc' = "cap_burn" /\ UNCHANGED <<clips, err, raisedIn, capFailed, warned>>
    /\ UNCHANGED <<runVars, hlVars, index, hookVars, uiVars, progress, log, labelled,
                   cancelSeenAt, cancelAtClip, flagAtEnd, failedClip, planVars, appVars, textVars>>

\* add_captions_api, lines 750-771: the captions are burnt into the hooked video
cap_burn ==
    /\ pc = "cap_burn"
    /\ \E r \in TranscodeOutcomes({clips[index].hooked}) :
         IF r.rc # 0
         THEN /\ capFailed' = TRUE
              /\ warned' = TRUE
              /\ IF clips[index].hooked = "absent"
                 THEN Raise("add_captions_api", "FileNotFoundError") /\ UNCHANGED clips
                 ELSE /\ clips' = [clips EXCEPT ![index].master = clips[index].hooked]
                      /\ pc' = "clip_done"
                      /\ UNCHANGED <<err, raisedIn>>
         ELSE /\ clips' = [clips EXCEPT ![index].master = "present"]
              /\ pc' = "clip_done"
              /\ UNCHANGED <<err, raisedIn, capFailed, warned>>
    /\ UNCHANGED <<runVars, hlVars, index, hookVars, audio_file, uiVars, progress,
                   log, labelled, cancelSeenAt, cancelAtClip, flagAtEnd, failedClip,
                   planVars, appVars, textVars>>

(* ----------------------- end of a clip, end of a run ------------------ *)

\* process_clip, lines 350-353: the temporary artifacts are unlinked
unlink_temps(c) ==
    [c EXCEPT !.landscape = "absent", !.portrait = "absent", !.hooked = "absent"]

\* mutant: the record is made from the first accepted highlight
metadata_of_first(hs, i) == hs[1]

\* process_clip, lines 356-362: title, hook_text, start_time, end_time and
\* duration_seconds of the record are those of the `highlight` argument, which
\* the loop of process (lines 79-82) takes from highlights[index - 1]; a
\* highlight is named by its place in the response
metadata(hs, i) == hs[i]

\* process_clip, lines 347-365: the "Done" label, the removal of the temporary
\* artifacts and the metadata record
clip_done ==
    /\ pc = "clip_done"
    /\ clip_progress(total_steps)
    /\ clips' = [clips EXCEPT ![index] = [unlink_temps(@) EXCEPT !.data = TRUE,
                                       !.record = metadata(highlights, index)]]
    /\ Logged("metadata", index)
    /\ clip_return
    /\ UNCHANGED <<runVars, hlVars, err, hook_video, main_reencoded, uiVars,
                   cancelSeenAt, cancelAtClip, flagAtEnd, failedClip, raisedIn,
                   planVars,
                   appVars, parseVars, transcript, events, wrapVars>>

\* process, lines 84-86, and cleanup: the per-run temporary directory is removed
cleanup ==
    /\ pc = "cleanup"
    /\ set_progress(Frac(95, 100))
    /\ temp_dir' = FALSE
    /\ Logged("cleanup", 0)
    /\ pc' = "complete"
    /\ UNCHANGED <<num_clips, last_progress, srt_path, downloader, hlVars, err, index, clips,
                   hookVars, audio_file, uiVars, labelled, cancelSeenAt,
                   cancelAtClip, flagAtEnd, clipHist, raisedIn, planVars, appVars, textVars>>

\* process, lines 88-89: "Complete!" and the "Created N clips" log line
complete ==
    /\ pc = "complete"
    /\ set_progress(Frac(1, 1))
    /\ Logged("complete", 0)
    /\ pc' = "returned"
    /\ UNCHANGED <<runVars, hlVars, err, index, clips, hookVars, audio_file, uiVars,
                   labelled, cancelSeenAt, cancelAtClip, flagAtEnd, clipHist,
                   raisedIn, planVars, appVars, textVars>>

(* ------------------------------ the UI -------------------------------- *)

\* str.lower() of the messages that contain upper-case letters
lower(msg) ==
    CASE msg = "Cancelled by user" -> "cancelled by user"
      [] msg = "Download failed!" -> "download failed!"
      [] msg = "No Indonesian subtitle found!" -> "no indonesian subtitle found!"
      [] msg = "No valid highlights found!" -> "no valid highlights found!"
      [] msg = "API error" -> "api error"
      [] msg = "Subscription CANCELED" -> "subscription canceled"
      [] msg = "JSONDecodeError" -> "jsondecodeerror"
      [] msg = "KeyError" -> "keyerror"
      [] msg = "TTS error" -> "tts error"
      [] msg = "FileNotFoundError" -> "filenotfounderror"
      [] OTHER -> msg

\* the lower-case texts in which "cancel" occurs
WithCancel == {"cancelled by user", "subscription canceled"}

\* run_processing, line 607: "cancel" in error_msg.lower()
mentions_cancel(msg) == lower(msg) \in WithCancel

\* run_processing, lines 602-610: what the worker schedules on the UI thread
\* once process() has returned or raised
run_processing ==
    /\ pc \in {"returned", "raised"}
    /\ flagAtEnd' = cancelled
    /\ after_queue' =
         IF pc = "returned"
         THEN IF ~cancelled THEN Append(after_queue, "on_complete") ELSE after_queue
         ELSE IF cancelled \/ mentions_cancel(err)
              THEN Append(after_queue, "on_cancelled")
              ELSE Append(after_queue, "on_error")
    /\ pc' = "ended"
    /\ UNCHANGED <<runVars, hlVars, err, index, clips, hookVars, audio_file,
                   cancelled, processing, cancel_btn, back_btn, notified, progress,
                   log, labelled, cancelSeenAt, cancelAtClip, clipHist, raisedIn,
                   planVars, appVars, textVars>>

\* positions of the worker inside process_clip
ClipPcs == {"process_clip", "step1", "cut", "step2", "convert_to_portrait", "step3",
            "add_hook", "hook_build", "hook_reencode", "hook_concat",
            "hook_fallback", "hook_cleanup", "step4", "add_captions_api",
            "cap_check", "cap_transcribe", "cap_burn", "clip_done"}

\* cancel_processing, lines 681-685: the user confirms the dialog
cancel_processing ==
    /\ page = "processing"
    /\ cancel_btn = "normal"
    /\ cancelled' = TRUE
    /\ cancel_btn' = "disabled"
    /\ cancelAtClip' = IF pc \in ClipPcs THEN index ELSE cancelAtClip
    /\ cancelReq' = cancelReq \cup {r \in Runs : r = current_run /\ threads[r] = "running"}
    /\ UNCHANGED <<workerVars, processing, back_btn, after_queue, notified, progress,
                   log, labelled, cancelSeenAt, flagAtEnd, clipHist, raisedIn,
                   planVars, textVars, page, results_btn, token_usage, threads, applied>>

\* on_complete, on_cancelled, on_error: the UI thread runs a scheduled callback
ui_callback ==
    /\ after_queue # <<>>
    /\ notified' = Append(notified, Head(after_queue))
    /\ after_queue' = Tail(after_queue)
    /\ processing' = FALSE
    /\ cancel_btn' = "disabled"
    /\ back_btn' = "normal"
    /\ results_btn' = IF Head(after_queue) = "on_complete" THEN "normal" ELSE results_btn
    /\ UNCHANGED <<workerVars, cancelled, histVars, planVars, textVars, page, token_usage,
                   threads, applied, cancelReq>>

Next ==
    \/ process \/ download_video \/ download_poll \/ download_percent
    \/ download_merge \/ download_other \/ download_exit \/ after_download
    \/ find_highlights_stage \/ after_find \/ clip_loop \/ process_clip
    \/ step1 \/ cut \/ step2 \/ convert_to_portrait \/ step3
    \/ add_hook \/ hook_build \/ hook_reencode \/ hook_concat \/ hook_fallback
    \/ hook_cleanup \/ step4 \/ add_captions_api \/ cap_check \/ cap_transcribe
    \/ cap_burn \/ clip_done \/ cleanup \/ complete
    \/ run_processing \/ cancel_processing \/ ui_callback

Spec == Init /\ [][Next]_vars

\* the steps of the worker thread: run_processing, process and what it calls
WorkerNext ==
    \/ process \/ download_video \/ download_poll \/ download_percent
    \/ download_merge \/ download_other \/ download_exit \/ after_download
    \/ find_highlights_stage \/ after_find \/ clip_loop \/ process_clip
    \/ step1 \/ cut \/ step2 \/ convert_to_portrait \/ step3
    \/ add_hook \/ hook_build \/ hook_reencode \/ hook_concat \/ hook_fallback
    \/ hook_cleanup \/ step4 \/ add_captions_api \/ cap_check \/ cap_transcribe
    \/ cap_burn \/ clip_done \/ cleanup \/ complete
    \/ run_processing

\* The worker thread keeps running until run_processing has ended, the
\* downloader ends its output, and the Tk main loop runs every callback that
\* was scheduled with after(0, ...); the user is free to cancel or not.
SpecLive ==
    /\ Init
    /\ [][Next]_vars
    /\ WF_vars(WorkerNext)
    /\ SF_vars(download_exit)
    /\ WF_vars(ui_callback)


(* --------------------------- the crop planner ------------------------- *)

\* clipper_core.py:453  window_size
window_size == 60

\* clipper_core.py:471  threshold
threshold == 250

\* clipper_core.py:472  min_shot_duration
min_shot_duration == 90

\* largest number of segments of a face signal (a segment: consecutive frames
\* with the same detections)
MaxSegs == 3

\* int(x) of Python for the quotient n / d, d > 0: truncation towards zero
trunc(n, d) == IF n >= 0 THEN n \div d ELSE -((-n) \div d)

Abs(x) == IF x >= 0 THEN x ELSE -x

Max(a, b) == IF a >= b THEN a ELSE b

Min(a, b) == IF a <= b THEN a ELSE b

\* convert_to_portrait, lines 377-378: crop_w = int(orig_h * 9 / 16)
crop_width(orig_h) == (orig_h * 9) \div 16

\* convert_to_portrait, line 401: max(faces, key=lambda f: f[2] * f[3]), the
\* first box of largest area
RECURSIVE largest_from(_, _, _)
largest_from(faces, k, best) ==
    IF k > Len(faces) THEN best
    ELSE largest_from(faces, k + 1,
                      IF faces[k].w * faces[k].h > best.w * best.h THEN faces[k] ELSE best)

\* mutant: the first box is taken, whatever its area
first_face(faces) == faces[1]

largest(faces) == largest_from(faces, 2, faces[1])

\* convert_to_portrait, lines 399-402: the target after a frame (kept doubled,
\* so that largest[0] + largest[2] / 2 stays a whole number)
next_target(target2, faces) ==
    IF Len(faces) > 0 THEN 2 * largest(faces).x + largest(faces).w ELSE target2

\* mutant: the upper clamp is forgotten
clamp_lower_only(crop_x, w, cw) == Max(0, crop_x)

\* convert_to_portrait, line 405: max(0, min(crop_x, orig_w - crop_w))
clamp(crop_x, w, cw) == Max(0, Min(crop_x, w - cw))

\* mutant: the whole crop width is subtracted from the target, not half of it
crop_offset_uncentred(target2, w, cw) == clamp(trunc(target2 - 2 * cw, 2), w, cw)

\* convert_to_portrait, lines 404-405
crop_offset(target2, w, cw) == clamp(trunc(target2 - cw, 2), w, cw)

\* the k-th smallest (k = 1..) of seq[lo..hi]
kth(seq, lo, hi, k) ==
    CHOOSE v \in {seq[i] : i \in lo..hi} :
        /\ Cardinality({i \in lo..hi : seq[i] < v}) < k
        /\ Cardinality({i \in lo..hi : seq[i] <= v}) >= k

\* int(np.median(seq[lo..hi])), lo <= hi
median(seq, lo, hi) ==
    LET n == hi - lo + 1
    IN IF n % 2 = 1
       THEN kth(seq, lo, hi, (n + 1) \div 2)
       ELSE trunc(kth(seq, lo, hi, n \div 2) + kth(seq, lo, hi, n \div 2 + 1), 2)

\* mutant: only the windows that fit whole into the sequence give an offset
smooth_valid(positions) ==
    [i \in 1..Max(0, Len(positions) - window_size + 1) |->
        median(positions, i, i + window_size - 1)]

\* mutant: the window spans one frame to each side, not window_size // 2
smooth_narrow(positions) ==
    [i \in 1..Len(positions) |->
        median(positions, Max(0, (i - 1) - 1) + 1, Min(Len(positions), (i - 1) + 1))]

\* stabilize_positions, lines 456-464: the moving median; frame i (from 1) has
\* the window positions[start:end] of the code, start = max(0, i-1 - 30),
\* end = min(len, i-1 + 30)
smooth(positions) ==
    [i \in 1..Len(positions) |->
        median(positions,
               Max(0, (i - 1) - window_size \div 2) + 1,
               Min(Len(positions), (i - 1) + window_size \div 2))]

\* n copies of v
Repeat(v, n) == [k \in 1..n |-> v]

\* mutant: the minimum shot duration is not required
shot_change_any_time(offsets, i, shot_start) ==
    /\ i > 0
    /\ Abs(offsets[i + 1] - offsets[shot_start + 1]) > threshold

\* stabilize_positions, line 478-479: a shot change at frame i (from 0) of a shot
\* that began at shot_start
shot_change(offsets, i, shot_start) ==
    /\ i > 0
    /\ i - shot_start >= min_shot_duration
    /\ Abs(offsets[i + 1] - offsets[shot_start + 1]) > threshold

\* stabilize_positions, lines 474-485: with shot_start fixed, the loop passes
\* over the frames until the first one that is a shot change
next_change(offsets, shot_start) ==
    LET changes == {i \in shot_start..(Len(offsets) - 1) :
                       shot_change(offsets, i, shot_start)}
    IN IF changes = {} THEN -1
       ELSE CHOOSE i \in changes : \A j \in changes : i <= j

\* stabilize_positions, lines 474-491: every shot change locks the shot before
\* it to its median and starts a new shot; then the last shot is locked
RECURSIVE lock_loop(_, _, _)
lock_loop(offsets, shot_start, final) ==
    LET i == next_change(offsets, shot_start)
    IN IF i = -1
       THEN IF shot_start < Len(offsets)
            THEN final \o Repeat(median(offsets, shot_start + 1, Len(offsets)),
                                 Len(offsets) - shot_start)
            ELSE final
       ELSE lock_loop(offsets, i,
                      final \o Repeat(median(offsets, shot_start + 1, i),
                                      i - shot_start))

\* stabilize_positions, lines 470-485: the values shot_start takes, in order
RECURSIVE shot_starts(_, _)
shot_starts(offsets, shot_start) ==
    LET i == next_change(offsets, shot_start)
    IN IF i = -1 THEN <<shot_start>>
       ELSE <<shot_start>> \o shot_starts(offsets, i)

\* mutant: a shot is locked to the offset of its first frame, not to its median
lock_to_start(offsets) ==
    LET starts == shot_starts(offsets, 0)
    IN [i \in 1..Len(offsets) |->
           offsets[1 + Max(0, CHOOSE b \in {starts[k] : k \in DOMAIN starts} :
                                  /\ b < i
                                  /\ \A c \in {starts[k] : k \in DOMAIN starts} :
                                         c < i => c <= b)]]

\* stabilize_positions, lines 466-493
lock_shots(offsets) ==
    LET final == lock_loop(offsets, 0, <<>>)
    IN IF final # <<>> THEN final ELSE offsets

\* stabilize_positions
stabilize_positions(positions) ==
    IF positions = <<>> THEN positions ELSE lock_shots(smooth(positions))

\* source sizes: landscape (the crop window is 405 wide and the centred offset
\* is 277.5), as wide as the crop window, narrower than it
Dims == {[w |-> 960, h |-> 720], [w |-> 405, h |-> 720], [w |-> 320, h |-> 720]}

\* detections of one frame: none, one face at the left edge, one at the right
\* edge, three faces of which the second and the third are the largest, with
\* the same area
FaceLists ==
    {<<>>,
     <<[x |-> 0, w |-> 100, h |-> 100]>>,
     <<[x |-> 840, w |-> 120, h |-> 120]>>,
     <<[x |-> 300, w |-> 60, h |-> 60], [x |-> 602, w |-> 101, h |-> 101],
       [x |-> 200, w |-> 101, h |-> 101]>>}

\* lengths of the segments
RunLengths == {1, 100}

Segments == {[faces |-> f, n |-> n] : f \in FaceLists, n \in RunLengths}

\* the analysis starts: cap is open, the target is the frame centre
InitPlan ==
    /\ pc = "off"
    /\ num_clips = 1
    /\ RunInit
    /\ AppIdle
    /\ TextIdle
    /\ planPc = "track"
    /\ \E d \in Dims : orig_w = d.w /\ crop_w = crop_width(d.h)
    /\ frames \in SeqsUpTo(Segments, MaxSegs)
    /\ detected = FALSE
    /\ current_target = orig_w
    /\ crop_positions = <<>>
    /\ raw_positions = <<>>
    /\ stabilized = <<>>

\* convert_to_portrait, lines 391-406: one frame of the first pass
track_frame ==
    /\ planPc = "track"
    /\ frames # <<>>
    /\ LET seg == Head(frames)
           t == next_target(current_target, seg.faces)
       IN /\ current_target' = t
          /\ crop_positions' = Append(crop_positions, crop_offset(t, orig_w, crop_w))
          /\ frames' = IF seg.n > 1
                       THEN <<[seg EXCEPT !.n = @ - 1]>> \o Tail(frames)
                       ELSE Tail(frames)
          /\ detected' = (detected \/ seg.faces # <<>>)
    /\ UNCHANGED <<planPc, orig_w, crop_w, raw_positions, stabilized, workerVars, uiVars,
                   histVars, appVars, textVars>>

\* convert_to_portrait, lines 393-409: the video has ended; the positions are
\* stabilized
stabilize ==
    /\ planPc = "track"
    /\ frames = <<>>
    /\ raw_positions' = crop_positions
    /\ stabilized' = smooth(crop_positions)
    /\ crop_positions' = stabilize_positions(crop_positions)
    /\ planPc' = "done"
    /\ UNCHANGED <<orig_w, crop_w, frames, current_target, detected, workerVars, uiVars,
                   histVars, appVars, textVars>>

NextPlan == track_frame \/ stabilize

SpecPlan == InitPlan /\ [][NextPlan]_vars


(* ----------------------- the window, over several runs ---------------- *)

coreVars == <<workerVars, histVars, planVars, textVars>>

\* a callback scheduled with self.after(0, ...) by the worker of run r
Callback(cb, r) == [cb |-> cb, run |-> r]

\* YTShortClipperApp.__init__: the home page is shown, nothing runs
InitUI ==
    /\ pc = "off"
    /\ num_clips = 1
    /\ CoreInit
    /\ response = <<>>
    /\ PlanIdle
    /\ TextIdle
    /\ cancelled = FALSE
    /\ processing = FALSE
    /\ cancel_btn = "normal"
    /\ back_btn = "disabled"
    /\ after_queue = <<>>
    /\ notified = <<>>
    /\ page = "home"
    /\ results_btn = "disabled"
    /\ token_usage = 0
    /\ threads = [r \in Runs |-> NoThread]
    /\ applied = 0
    /\ cancelReq = {}

\* start_processing, lines 549-586, with valid settings, URL and clip count: the
\* run state is reset, the processing page shown and a worker thread started
start_processing ==
    /\ page = "home"
    /\ current_run < MaxRuns
    /\ processing' = TRUE
    /\ cancelled' = FALSE
    /\ token_usage' = 0
    /\ applied' = 0
    /\ cancel_btn' = "normal"
    /\ back_btn' = "disabled"
    /\ page' = "processing"
    /\ threads' = [threads EXCEPT ![current_run + 1] = "running"]
    /\ UNCHANGED <<coreVars, after_queue, notified, results_btn, cancelReq>>

\* usage reports scheduled and not yet counted
pending == Cardinality({k \in DOMAIN after_queue : after_queue[k].cb = "update_tokens"})

\* the token_callback of run_processing, line 599, called by report_tokens in
\* the worker of run r
thread_report(r) ==
    /\ threads[r] = "running"
    /\ token_usage + pending < MaxReports
    /\ after_queue' = Append(after_queue, Callback("update_tokens", r))
    /\ UNCHANGED <<coreVars, cancelled, processing, cancel_btn, back_btn, notified,
                   page, results_btn, token_usage, threads, applied, cancelReq>>

\* run_processing, lines 601-604: process() of run r has returned (at a poll that
\* saw the flag, or at its end)
thread_return(r) ==
    /\ threads[r] = "running"
    /\ threads' = [threads EXCEPT ![r] = "ended"]
    /\ cancelReq' = cancelReq \ {r}
    /\ after_queue' = IF ~cancelled
                      THEN Append(after_queue, Callback("on_complete", r))
                      ELSE after_queue
    /\ UNCHANGED <<coreVars, cancelled, processing, cancel_btn, back_btn, notified,
                   page, results_btn, token_usage, applied>>

\* run_processing, lines 605-610: process() of run r has raised; the download loop
\* raises "Cancelled by user" when its poll finds the flag set
thread_raise(r) ==
    /\ threads[r] = "running"
    /\ threads' = [threads EXCEPT ![r] = "ended"]
    /\ cancelReq' = cancelReq \ {r}
    /\ \E msg \in {"Cancelled by user", "Download failed!"} \cup ServiceErrors :
         /\ msg = "Cancelled by user" => is_cancelled
         /\ after_queue' =
              IF cancelled \/ mentions_cancel(msg)
              THEN Append(after_queue, Callback("on_cancelled", r))
              ELSE Append(after_queue, Callback("on_error", r))
    /\ UNCHANGED <<coreVars, cancelled, processing, cancel_btn, back_btn, notified,
                   page, results_btn, token_usage, applied>>

\* update_tokens, lines 672-679, run by the UI thread
update_tokens ==
    /\ after_queue # <<>>
    /\ Head(after_queue).cb = "update_tokens"
    /\ token_usage' = token_usage + 1
    /\ applied' = IF Head(after_queue).run = current_run THEN applied + 1 ELSE applied
    /\ after_queue' = Tail(after_queue)
    /\ UNCHANGED <<coreVars, cancelled, processing, cancel_btn, back_btn, notified,
                   page, results_btn, threads, cancelReq>>

\* on_complete, lines 697-708
on_complete ==
    /\ after_queue # <<>>
    /\ Head(after_queue).cb = "on_complete"
    /\ processing' = FALSE
    /\ cancel_btn' = "disabled"
    /\ back_btn' = "normal"
    /\ results_btn' = "normal"
    /\ after_queue' = Tail(after_queue)
    /\ UNCHANGED <<coreVars, cancelled, notified, page, token_usage, threads, applied,
                   cancelReq>>

\* on_cancelled, lines 687-695
on_cancelled ==
    /\ after_queue # <<>>
    /\ Head(after_queue).cb = "on_cancelled"
    /\ processing' = FALSE
    /\ cancel_btn' = "disabled"
    /\ back_btn' = "normal"
    /\ after_queue' = Tail(after_queue)
    /\ UNCHANGED <<coreVars, cancelled, notified, page, results_btn, token_usage,
                   threads, applied, cancelReq>>

\* on_error, lines 832-839
on_error ==
    /\ after_queue # <<>>
    /\ Head(after_queue).cb = "on_error"
    /\ processing' = FALSE
    /\ cancel_btn' = "disabled"
    /\ back_btn' = "normal"
    /\ after_queue' = Tail(after_queue)
    /\ UNCHANGED <<coreVars, cancelled, notified, page, results_btn, token_usage,
                   threads, applied, cancelReq>>

\* the Back button of the processing page, line 459
back_home ==
    /\ page = "processing"
    /\ back_btn = "normal"
    /\ page' = "home"
    /\ UNCHANGED <<coreVars, uiVars, results_btn, token_usage, threads, applied,
                   cancelReq>>

\* show_results, lines 736-748: the View Results button of the processing page
show_results ==
    /\ page = "processing"
    /\ results_btn = "normal"
    /\ page' = "results"
    /\ UNCHANGED <<coreVars, uiVars, results_btn, token_usage, threads, applied,
                   cancelReq>>

\* the Back button of the results page, line 491
results_back ==
    /\ page = "results"
    /\ page' = "processing"
    /\ UNCHANGED <<coreVars, uiVars, results_btn, token_usage, threads, applied,
                   cancelReq>>

\* the New Clip button of the results page, line 493
new_clip ==
    /\ page = "results"
    /\ page' = "home"
    /\ UNCHANGED <<coreVars, uiVars, results_btn, token_usage, threads, applied,
                   cancelReq>>

NextUI ==
    \/ start_processing
    \/ cancel_processing
    \/ \E r \in Runs : thread_report(r)
    \/ \E r \in Runs : thread_return(r)
    \/ \E r \in Runs : thread_raise(r)
    \/ update_tokens \/ on_complete \/ on_cancelled \/ on_error
    \/ back_home \/ show_results \/ results_back \/ new_clip

SpecUI == InitUI /\ [][NextUI]_vars


(* ------------------- find_highlights on its own ----------------------- *)

\* a response of the completion service and a count are given
InitSelect ==
    /\ pc = "select"
    /\ num_clips \in 1..MaxClips
    /\ CoreInit
    /\ response \in Responses
    /\ PlanIdle
    /\ TextIdle
    /\ AppIdle
    /\ cancelled = FALSE
    /\ processing = TRUE
    /\ cancel_btn = "normal"
    /\ back_btn = "disabled"
    /\ after_queue = <<>>
    /\ notified = <<>>

\* find_highlights, lines 266-278, applied to the response
select_highlights ==
    /\ pc = "select"
    /\ highlights' = find_highlights(response, num_clips)
    /\ pc' = "selected"
    /\ UNCHANGED <<num_clips, err, temp_dir, dlVars, response, index, clips, hookVars,
                   audio_file, uiVars, histVars, planVars, appVars, textVars>>

NextSelect == select_highlights

SpecSelect == InitSelect /\ [][NextSelect]_vars

(* ------------- find_highlights: reading the service's message --------- *)

\* the fields the prompt asks for in every object (lines 238-244)
Keys == {"start_time", "end_time", "title", "reason", "hook_text"}

\* the time spans of the objects: 57.9 s and 58.0 s
Spans == {[start_time |-> 10000, end_time |-> 67900],
          [start_time |-> 10000, end_time |-> 68000]}

\* the objects of an array: a time span and the fields the object has (all, or
\* all but one)
Objects ==
    {[span |-> sp, keys |-> Keys \ without] :
        sp \in Spans, without \in {{}} \cup {{key} : key \in Keys}}

\* largest number of objects in the array of a message
MaxItems == 2

\* The message text is a sequence of tokens: the fence ```, the word json, white
\* space, other prose, and a JSON array of objects.
Token(t) == [t |-> t, array |-> <<>>]

ArrayToken(objects) == [t |-> "array", array |-> objects]

Fence == Token("fence")

Json == Token("json")

Space == Token("space")

Prose == Token("prose")

\* the messages of the service: an array alone, between white space, in a
\* fenced block with or without the word json, in a fenced block after a
\* sentence of prose; or prose alone
Contents ==
    {<<Prose>>} \cup
    UNION {{<<ArrayToken(a)>>,
            <<Space, ArrayToken(a), Space>>,
            <<Fence, Json, Space, ArrayToken(a), Space, Fence>>,
            <<Fence, Space, ArrayToken(a), Space, Fence>>,
            <<Prose, Space, Fence, Json, Space, ArrayToken(a), Space, Fence>>} :
           a \in SeqsUpTo(Objects, MaxItems)}

\* str.strip(), line 259
strip(text) ==
    LET inked == {k \in DOMAIN text : text[k] # Space}
    IN IF inked = {} THEN <<>>
       ELSE SubSeq(text, CHOOSE k \in inked : \A m \in inked : k <= m,
                         CHOOSE k \in inked : \A m \in inked : k >= m)

\* the tokens of text at the places in `keep`, in order
RECURSIVE pick(_, _, _)
pick(text, keep, k) ==
    IF k > Len(text) THEN <<>>
    ELSE (IF k \in keep THEN <<text[k]>> ELSE <<>>) \o pick(text, keep, k + 1)

\* re.sub(r"```json?\n?", "", result), line 261: every fence followed by the
\* word json goes, with the white space after it
sub_json_fence(text) ==
    LET opens == {k \in DOMAIN text :
                     text[k] = Fence /\ k < Len(text) /\ text[k + 1] = Json}
        gone == opens \cup {k + 1 : k \in opens}
                      \cup {k + 2 : k \in {m \in opens : m + 2 <= Len(text)
                                                         /\ text[m + 2] = Space}}
    IN pick(text, DOMAIN text \ gone, 1)

\* re.sub(r"```\n?", "", result), line 262: every fence goes, with the white
\* space after it
sub_fence(text) ==
    LET fences == {k \in DOMAIN text : text[k] = Fence}
        gone == fences \cup {k + 1 : k \in {m \in fences : m + 1 <= Len(text)
                                                          /\ text[m + 1] = Space}}
    IN pick(text, DOMAIN text \ gone, 1)

\* find_highlights, lines 260-262
unfence(text) ==
    IF text # <<>> /\ text[1] = Fence THEN sub_fence(sub_json_fence(text)) ELSE text

\* json.loads, line 264: white space around the document is allowed, anything
\* else but one JSON document is an error
json_loads(text) ==
    LET doc == strip(text)
    IN IF Len(doc) = 1 /\ doc[1].t = "array"
       THEN [ok |-> TRUE, value |-> doc[1].array]
       ELSE [ok |-> FALSE, value |-> <<>>]

\* find_highlights, lines 268-276 over objects k.. with `valid` accepted so far:
\* h["end_time"] and h["start_time"] are read for every object that the loop
\* reaches (line 269), h['title'] for every accepted one (line 273)
RECURSIVE filter_items(_, _, _, _)
filter_items(objects, k, valid, n) ==
    IF k > Len(objects) THEN [ok |-> TRUE, value |-> valid]
    ELSE LET h == objects[k]
         IN IF ~({"end_time", "start_time"} \subseteq h.keys)
            THEN [ok |-> FALSE, value |-> <<>>]
            ELSE IF accepted[h.span] /\ "title" \notin h.keys
            THEN [ok |-> FALSE, value |-> <<>>]
            ELSE LET v == IF accepted[h.span] THEN accept(valid, k) ELSE valid
                 IN IF Len(v) >= n THEN [ok |-> TRUE, value |-> v]
                    ELSE filter_items(objects, k + 1, v, n)

\* a message of the completion service and a count are given
InitParse ==
    /\ pc = "parse"
    /\ num_clips \in 1..MaxClips
    /\ CoreInit
    /\ response = <<>>
    /\ content \in Contents
    /\ items = <<>>
    /\ CaptionIdle
    /\ WrapIdle
    /\ PlanIdle
    /\ AppIdle
    /\ cancelled = FALSE
    /\ processing = TRUE
    /\ cancel_btn = "normal"
    /\ back_btn = "disabled"
    /\ after_queue = <<>>
    /\ notified = <<>>

\* what the two steps of find_highlights leave alone
parseFrame == <<num_clips, temp_dir, dlVars, response, index, clips, hookVars,
                audio_file, uiVars, progress, log, labelled, cancelSeenAt,
                cancelAtClip, flagAtEnd, clipHist, planVars, appVars, content,
                captionVars, wrapVars>>

\* find_highlights, lines 259-264: the fence is taken off and the text decoded
parse_response ==
    /\ pc = "parse"
    /\ LET loaded == json_loads(unfence(strip(content)))
       IN IF loaded.ok
          THEN items' = loaded.value /\ pc' = "filter" /\ UNCHANGED <<err, raisedIn>>
          ELSE Raise("find_highlights", "JSONDecodeError") /\ UNCHANGED items
    /\ UNCHANGED <<highlights, parseFrame>>

\* find_highlights, lines 266-278: the filter loop and the result
filter_highlights ==
    /\ pc = "filter"
    /\ LET valid == filter_items(items, 1, <<>>, num_clips)
       IN IF valid.ok
          THEN /\ highlights' = SubSeq(valid.value, 1, Min(Len(valid.value), num_clips))
               /\ pc' = "selected"
               /\ UNCHANGED <<err, raisedIn>>
          ELSE Raise("find_highlights", "KeyError") /\ UNCHANGED highlights
    /\ UNCHANGED <<items, parseFrame>>

NextParse == parse_response \/ filter_highlights

SpecParse == InitParse /\ [][NextParse]_vars


(* -------------------- the caption timeline (word level) --------------- *)

\* clipper_core.py:800  chunk_size
chunk_size == 4

\* largest number of words of a transcription
MaxWords == 5

\* the carry into bit k - 1 of the sum of the fractions a and b
add_carry(a, b, k) ==
    IF \E j \in k..FracBits :
          /\ a[j] = 1 /\ b[j] = 1
          /\ \A i \in k..(j - 1) : a[i] = 1 \/ b[i] = 1
    THEN 1 ELSE 0

\* a + b for floats >= 0
float_add(a, b) ==
    to_float(a.ip + b.ip + add_carry(a.fr, b.fr, 1),
             Bits([k \in 1..FracBits |->
                     (a.fr[k] + b.fr[k] + add_carry(a.fr, b.fr, k + 1)) % 2]),
             FALSE)

\* int((seconds % 1) * 100), line 857: seconds % 1 is the fraction of the float,
\* its product with 100 is rounded as a float and int() drops what is behind the
\* point
centisecs(seconds) ==
    LET tenfold == times_ten(seconds.fr)
        hundredfold == times_ten(tenfold.fr)
    IN to_float(10 * tenfold.carry + hundredfold.carry, hundredfold.fr, FALSE).ip

\* format_time, lines 852-858: the time "H:MM:SS.cc" that is written, named by
\* its value in centiseconds
format_time(seconds) ==
    LET hours == seconds.ip \div 3600
        minutes == (seconds.ip % 3600) \div 60
        secs == seconds.ip % 60
    IN hours * 360000 + minutes * 6000 + secs * 100 + centisecs(seconds)

\* the words as the service writes them, and w.word.strip().upper() of each
\* (line 816)
WordTexts == <<" halo", "apa", " kabar ", "semua", " hari", "ini">>

shown(word) ==
    CASE word = " halo" -> "HALO"
      [] word = "apa" -> "APA"
      [] word = " kabar " -> "KABAR"
      [] word = "semua" -> "SEMUA"
      [] word = " hari" -> "HARI"
      [] word = "ini" -> "INI"

\* The k-th word of a transcription starts 0.29 s after the one before it and
\* lasts 0.29 s, or 0.40 s: then it has not ended when the next one starts.
\* Times are named by their value in milliseconds.
WordStart(k) == 290 * (k - 1)

Lasts == {290, 400}

Word(k, lasts) ==
    [word |-> WordTexts[((k - 1) % Len(WordTexts)) + 1],
     start |-> WordStart(k), end |-> WordStart(k) + lasts]

\* transcript.words of the transcriptions with word-level timestamps
Transcripts ==
    UNION {{[k \in 1..n |-> Word(k, d[k])] : d \in [1..n -> Lasts]} : n \in 1..MaxWords}

\* the hook durations: none (the default of the parameter) and 3.2 s
Offsets == {0, 3200}

\* the times that are written, for every time of a word and every offset
\* (lines 810-811 and 826-827)
WordTimes == {WordStart(k) + d : k \in 1..MaxWords, d \in {0} \cup Lasts}

written_time ==
    [t \in WordTimes, off \in Offsets |->
        format_time(float_add(float_of_decimal(t), float_of_decimal(off)))]

\* lines 810-811 and 826-827: the written time of the time t of a word
shifted(t, off) == written_time[t, off]

\* lines 802-803: the places in words of the chunk that holds word number w
chunk_of(w, n) ==
    LET i == ((w - 1) \div chunk_size) * chunk_size
    IN (i + 1)..Min(i + chunk_size, n)

\* line 817: if k == j
highlighted(k, w) == k = w

\* lines 813-823: the text of the event of word number w, one part per word of
\* its chunk
event_text(words, w) ==
    LET chunk == chunk_of(w, Len(words))
        first == CHOOSE k \in chunk : \A m \in chunk : k <= m
    IN [p \in 1..Cardinality(chunk) |->
           [word |-> shown(words[first + p - 1].word),
            mark |-> highlighted(first + p - 1, w)]]

\* a word-level transcription and a hook duration are given
InitCaption ==
    /\ pc = "create_ass"
    /\ num_clips = 1
    /\ CoreInit
    /\ response = <<>>
    /\ ParseIdle
    /\ WrapIdle
    /\ transcript \in Transcripts
    /\ time_offset \in Offsets
    /\ events = <<>>
    /\ PlanIdle
    /\ AppIdle
    /\ cancelled = FALSE
    /\ processing = TRUE
    /\ cancel_btn = "normal"
    /\ back_btn = "disabled"
    /\ after_queue = <<>>
    /\ notified = <<>>

\* what create_ass_subtitle_capcut leaves alone
captionFrame == <<num_clips, err, temp_dir, dlVars, hlVars, index, clips, hookVars,
                  audio_file, uiVars, histVars, planVars, appVars, parseVars,
                  transcript, time_offset, wrapVars>>

\* create_ass_subtitle_capcut, lines 808-829: one turn of the inner loop, the
\* event of the next word
caption_event ==
    /\ pc = "create_ass"
    /\ Len(events) < Len(transcript)
    /\ LET w == Len(events) + 1
           current_word == transcript[w]
       IN events' = Append(events,
                           [start |-> shifted(current_word.start, time_offset),
                            end |-> shifted(current_word.end, time_offset),
                            text |-> event_text(transcript, w)])
    /\ UNCHANGED <<pc, captionFrame>>

\* create_ass_subtitle_capcut, lines 845-850: the events are written
write_ass ==
    /\ pc = "create_ass"
    /\ Len(events) = Len(transcript)
    /\ pc' = "written"
    /\ UNCHANGED <<events, captionFrame>>

NextCaption == caption_event \/ write_ass

SpecCaption == InitCaption /\ [][NextCaption]_vars


(* ------------------- add_hook: the lines of the hook text ------------- *)

\* clipper_core.py:535  a line is closed when it has this many words
max_line_words == 3

\* largest number of words of a hook text
MaxHookWords == 7

\* white space between, before and after the words of a text
Blank == " "

\* the words a text is made of, in lower, mixed and upper case
HookWords == <<"kamu", "Tidak", "AKAN", "percaya">>

\* str.upper() of a word
upper_word(w) ==
    CASE w = "kamu" -> "KAMU"
      [] w = "Tidak" -> "TIDAK"
      [] w = "percaya" -> "PERCAYA"
      [] OTHER -> w

\* str.upper(), line 528: white space stays, every word is upper-cased
upper(text) ==
    [k \in DOMAIN text |-> IF text[k] = Blank THEN Blank ELSE upper_word(text[k])]

\* str.split(), line 529: the maximal runs without white space, in order
split(text) == pick(text, {k \in DOMAIN text : text[k] # Blank}, 1)

\* ' '.join(current_line), lines 536 and 539
RECURSIVE join(_)
join(line) ==
    IF Len(line) <= 1 THEN line
    ELSE <<Head(line), Blank>> \o join(Tail(line))

\* a text of n words, the first one HookWords[first], with `gap` blanks between
\* two words and with or without white space before and after
RECURSIVE spaced(_, _, _)
spaced(n, first, gap) ==
    IF n = 0 THEN <<>>
    ELSE <<HookWords[((first - 1) % Len(HookWords)) + 1]>>
           \o (IF n > 1 THEN Repeat(Blank, gap) ELSE <<>>)
           \o spaced(n - 1, first + 1, gap)

HookTexts ==
    {(IF lead THEN <<Blank>> ELSE <<>>) \o spaced(n, first, gap)
                                        \o (IF trail THEN <<Blank>> ELSE <<>>) :
        n \in 0..MaxHookWords, first \in DOMAIN HookWords, gap \in 1..2,
        lead \in BOOLEAN, trail \in BOOLEAN}

\* mutant: a line is closed one word later
line_over_full(line) == Len(line) > max_line_words

\* add_hook, line 535: if len(current_line) >= 3
line_full(line) == Len(line) >= max_line_words

\* a hook text is given
InitWrap ==
    /\ pc = "wrap"
    /\ num_clips = 1
    /\ CoreInit
    /\ response = <<>>
    /\ ParseIdle
    /\ CaptionIdle
    /\ hook_text \in HookTexts
    /\ hook_words = <<>>
    /\ current_line = <<>>
    /\ lines = <<>>
    /\ PlanIdle
    /\ AppIdle
    /\ cancelled = FALSE
    /\ processing = TRUE
    /\ cancel_btn = "normal"
    /\ back_btn = "disabled"
    /\ after_queue = <<>>
    /\ notified = <<>>

\* what the line splitting leaves alone
wrapFrame == <<num_clips, err, temp_dir, dlVars, hlVars, index, clips, hookVars,
               audio_file, uiVars, histVars, planVars, appVars, parseVars,
               captionVars, hook_text>>

\* add_hook, lines 528-529: hook_upper and words
wrap_split ==
    /\ pc = "wrap"
    /\ hook_words' = split(upper(hook_text))
    /\ pc' = "wrap_loop"
    /\ UNCHANGED <<current_line, lines, wrapFrame>>

\* add_hook, lines 534-538: one turn of the loop over the words
wrap_word ==
    /\ pc = "wrap_loop"
    /\ hook_words # <<>>
    /\ LET line == Append(current_line, Head(hook_words))
       IN IF line_full(line)
          THEN lines' = Append(lines, join(line)) /\ current_line' = <<>>
          ELSE current_line' = line /\ UNCHANGED lines
    /\ hook_words' = Tail(hook_words)
    /\ UNCHANGED <<pc, wrapFrame>>

\* add_hook, lines 539-540: the words that are left make the last line
wrap_rest ==
    /\ pc = "wrap_loop"
    /\ hook_words = <<>>
    /\ lines' = IF current_line # <<>> THEN Append(lines, join(current_line)) ELSE lines
    /\ pc' = "wrapped"
    /\ UNCHANGED <<hook_words, current_line, wrapFrame>>

NextWrap == wrap_split \/ wrap_word \/ wrap_rest

SpecWrap == InitWrap /\ [][NextWrap]_vars


(* ----------------- clip_progress: the fractions as floats ------------- *)

\* largest number of accepted highlights of a run whose fractions are computed
MaxTotal == 6

\* a number with FracBits fraction bits, not rounded
Fixed(ip, fr) == [ip |-> ip, fr |-> fr]

\* a + b, exactly
fixed_add(a, b) ==
    Fixed(a.ip + b.ip + add_carry(a.fr, b.fr, 1),
          Bits([k \in 1..FracBits |->
                  (a.fr[k] + b.fr[k] + add_carry(a.fr, b.fr, k + 1)) % 2]))

\* 2 a, exactly
fixed_double(a) ==
    Fixed(2 * a.ip + a.fr[1], Bits([k \in 1..FracBits |-> bit(a.fr, k + 1)]))

\* n a, exactly, by doubling and adding
RECURSIVE fixed_times(_, _)
fixed_times(a, n) ==
    IF n = 0 THEN Fixed(0, Repeat(0, FracBits))
    ELSE IF n = 1 THEN Fixed(a.ip, a.fr)
    ELSE LET twice == fixed_double(fixed_times(a, n \div 2))
         IN IF n % 2 = 1 THEN fixed_add(twice, a) ELSE twice

\* x * n for a float x >= 0 and an int n >= 0: the exact product, rounded
float_mul_int(x, n) ==
    LET product == fixed_times(x, n)
    IN to_float(product.ip, product.fr, FALSE)

\* x * (q / 4) for a float x >= 0: q / 4 is a float, the exact product is a
\* quarter of q x
float_mul_quarters(x, q) ==
    LET product == fixed_times(x, q)
    IN to_float(product.ip \div 4,
                Bits([k \in 1..FracBits |->
                        IF k = 1 THEN (product.ip \div 2) % 2
                        ELSE IF k = 2 THEN product.ip % 2
                        ELSE product.fr[k - 2]]),
                product.fr[FracBits - 1] = 1 \/ product.fr[FracBits] = 1)

\* 2^m
RECURSIVE pow2(_)
pow2(m) == IF m = 0 THEN 1 ELSE 2 * pow2(m - 1)

\* the number written by the bits fr[from + 1 .. from + m]
RECURSIVE bits_value(_, _, _)
bits_value(fr, from, m) ==
    IF m = 0 THEN 0 ELSE 2 * bits_value(fr, from, m - 1) + fr[from + m]

\* floor(x * 2^(8 b)) modulo n
RECURSIVE rem_at_byte(_, _, _)
rem_at_byte(x, n, b) ==
    IF b = 0 THEN x.ip % n
    ELSE (256 * rem_at_byte(x, n, b - 1) + bits_value(x.fr, 8 * (b - 1), 8)) % n

\* floor(x * 2^k) modulo n: what long division has left after the bit k
rem_at(x, n, k) ==
    (pow2(k % 8) * rem_at_byte(x, n, k \div 8) + bits_value(x.fr, 8 * (k \div 8), k % 8)) % n

\* x / n for a float x >= 0 and an int n > 0: the exact quotient, rounded
float_div_int(x, n) ==
    to_float(x.ip \div n,
             Bits([k \in 1..FracBits |-> (2 * rem_at(x, n, k - 1) + x.fr[k]) \div n]),
             rem_at(x, n, FracBits) # 0)

\* process_clip.clip_progress, lines 299-303: the fraction `overall`
overall(i, total_clips, step_num) ==
    LET clip_base == float_add(float_of_decimal(300),
                               float_div_int(float_mul_int(float_of_decimal(600), i - 1),
                                             total_clips))
        clip_portion == float_div_int(float_of_decimal(600), total_clips)
        step_progress == float_mul_quarters(clip_portion, step_num)
    IN float_add(clip_base, step_progress)

\* the accepted highlights of a run, by their places in the response
Accepted_n(n) == [k \in 1..n |-> k]

\* the clip phase of a run with 1..MaxTotal accepted highlights begins; nobody
\* cancels
InitProgress ==
    /\ pc = "step1"
    /\ num_clips \in 1..MaxTotal
    /\ err = ""
    /\ temp_dir = TRUE
    /\ last_progress = <<>>
    /\ srt_path = TRUE
    /\ downloader = "exited"
    /\ response = <<>>
    /\ highlights = Accepted_n(num_clips)
    /\ index = 1
    /\ clips = [j \in ClipIds |-> NoClip]
    /\ hook_video = "absent"
    /\ main_reencoded = "absent"
    /\ concat_rc = 0
    /\ hook_duration = 0
    /\ hook_built = 0
    /\ audio_file = "absent"
    /\ progress = <<>>
    /\ log = <<>>
    /\ labelled = {}
    /\ cancelSeenAt = {}
    /\ cancelAtClip = 0
    /\ flagAtEnd = FALSE
    /\ failedClip = 0
    /\ capFailed = FALSE
    /\ warned = FALSE
    /\ raisedIn = ""
    /\ PlanIdle
    /\ TextIdle
    /\ AppIdle
    /\ cancelled = FALSE
    /\ processing = TRUE
    /\ cancel_btn = "normal"
    /\ back_btn = "disabled"
    /\ after_queue = <<>>
    /\ notified = <<>>

\* what the reports of clip_progress leave alone
progressFrame == <<num_clips, err, temp_dir, dlVars, hlVars, clips, hookVars,
                   audio_file, uiVars, log, labelled, cancelSeenAt, cancelAtClip,
                   flagAtEnd, clipHist, raisedIn, planVars, appVars, textVars>>

\* process_clip, lines 297-304: clip_progress(step_name, step_num) gives the
\* fraction to set_progress
report_step(at, step_num, to) ==
    /\ pc = at
    /\ set_progress(overall(index, Len(highlights), step_num))
    /\ pc' = to
    /\ UNCHANGED <<index, progressFrame>>

\* process_clip, line 309: clip_progress("Cutting video...", 0)
report_cut == report_step("step1", 0, "step2")

\* process_clip, line 325: clip_progress("Converting to portrait...", 1)
report_portrait == report_step("step2", 1, "step3")

\* process_clip, line 333: clip_progress("Adding hook...", 2)
report_hook == report_step("step3", 2, "step4")

\* process_clip, line 342: clip_progress("Adding captions...", 3)
report_captions == report_step("step4", 3, "clip_done")

\* process_clip, line 348: clip_progress("Done", 4); then the loop of process
\* (lines 79-82) goes to the next highlight, if there is one
report_done ==
    /\ pc = "clip_done"
    /\ set_progress(overall(index, Len(highlights), total_steps))
    /\ index' = next_index(index)
    /\ pc' = IF index < Len(highlights) THEN "step1" ELSE "cleanup"
    /\ UNCHANGED progressFrame

NextProgress ==
    report_cut \/ report_portrait \/ report_hook \/ report_captions \/ report_done

SpecProgress == InitProgress /\ [][NextProgress]_vars


(* ------------------------------ the claims ---------------------------- *)

IsPrefix(p, q) == Len(p) <= Len(q) /\ \A k \in 1..Len(p) : p[k] = q[k]

\* process() has ended (returned or raised), with or without run_processing
\* having looked at the result
EndPcs == {"returned", "raised", "ended"}

\* the terminal callbacks of the run, run or still scheduled
reports == notified \o after_queue

\* the chain of clip j was started and has ended
ChainEnded(j) == clips[j].dir /\ (index > j \/ pc \in EndPcs)

\* C1: for a source at least as wide as the crop window, every offset of the
\* plan (tracking pass, then stabilize_positions) lies in
\* [0, sourceWidth - cropWidth].
C1_CropInRange ==
    (planPc = "done" /\ orig_w >= crop_w) =>
        \A k \in DOMAIN crop_positions :
            0 <= crop_positions[k] /\ crop_positions[k] <= orig_w - crop_w

\* a finished plan of several shots that touches both ends of the range
C1_Witness ==
    /\ planPc = "done"
    /\ orig_w > crop_w
    /\ Len(crop_positions) > min_shot_duration
    /\ \E k \in DOMAIN crop_positions : crop_positions[k] = 0
    /\ \E k \in DOMAIN crop_positions : crop_positions[k] = orig_w - crop_w
    /\ \E k \in DOMAIN raw_positions : raw_positions[k] # crop_positions[k]

\* C2: the fractions given to the progress callback never decrease and lie in
\* [0, 1], downloader percentages included.
C2_ProgressMonotone ==
    /\ \A k \in DOMAIN progress : InUnit(progress[k])
    /\ Len(progress) = 2 => Leq(progress[1], progress[2])

\* C3: a run in which a poll point found the cancellation flag set ends by
\* raising a cancellation error; process() never returns normally from it.
C3_CancelRaises ==
    (cancelSeenAt # {} /\ pc \in {"returned", "raised"}) =>
        (pc = "raised" /\ err = "Cancelled by user")

\* C4: when cancellation is confirmed while clip k is being processed (and the
\* flag stays set), no clip after k is ever started (no directory, no step, no
\* progress label), and when the run has ended the master file and the metadata
\* record of every clip before k exist.
C4_CancelStopsLaterClips ==
    (cancelAtClip # 0 /\ cancelled) =>
        /\ \A j \in ClipIds : j > cancelAtClip =>
              /\ ~clips[j].dir
              /\ j \notin labelled
              /\ \A e \in DOMAIN log : log[e].clip # j
        /\ pc \in EndPcs =>
              \A j \in ClipIds : j < cancelAtClip =>
                  clips[j].master # "absent" /\ clips[j].data

\* the scenario of the spec: cancelled during clip 2 of 3, the run has ended
C4_Witness ==
    /\ cancelAtClip = 2
    /\ cancelled
    /\ Len(highlights) = 3
    /\ pc = "ended"
    /\ clips[1].data
    /\ clips[2].dir

\* C5: whenever the chain of a clip has ended (final encode, cancellation between
\* two steps, or an error), the temporary artifacts of that clip are gone.
C5_TempsRemoved ==
    \A j \in ClipIds : ChainEnded(j) =>
        /\ clips[j].landscape = "absent"
        /\ clips[j].portrait = "absent"
        /\ clips[j].hooked = "absent"

\* C6: on every exit path of process() the per-run temporary directory has been
\* removed.
C6_TempDirRemoved == pc \in EndPcs => ~temp_dir

\* C7: a run that ends with the cancellation flag set is reported as cancelled,
\* never as failed or successful (and never not at all).
C7_CancelWins == (pc = "ended" /\ flagAtEnd) => reports = <<"on_cancelled">>

\* C8: a failed non-caption transcoder call of a clip aborts the run: no metadata
\* record for that clip, no later clip started, no completion reported.
C8_FailureAborts ==
    failedClip # 0 =>
        /\ ~clips[failedClip].data
        /\ \A j \in ClipIds : j > failedClip => ~clips[j].dir
        /\ \A e \in DOMAIN log : log[e].stage # "complete"
        /\ "on_complete" \notin {reports[k] : k \in DOMAIN reports}

\* C9: after any captioning failure add_captions_api returns without raising,
\* the master file is a copy of the hooked video, a warning was logged and the
\* run goes on to the metadata write.
C9_CaptionFailureDegrades ==
    capFailed =>
        /\ pc = "clip_done"
        /\ raisedIn # "add_captions_api"
        /\ clips[index].master # "absent"
        /\ clips[index].master = clips[index].hooked
        /\ warned

\* the steps of a chain, in the order of process_clip
Steps == <<"cut", "portrait", "hook", "captions", "metadata">>

\* the events of the full chain of clip j
ChainEvents(j) ==
    [k \in 1..5 |->
        Event(Steps[k], j, highlights[j])]

RECURSIVE ChainsUpTo(_)
ChainsUpTo(j) == IF j = 0 THEN <<>> ELSE ChainsUpTo(j - 1) \o ChainEvents(j)

\* the events of a run that completes
ExpectedLog ==
    <<Event("download", 0, 0), Event("highlights", 0, 0)>>
        \o ChainsUpTo(Len(highlights))
        \o <<Event("cleanup", 0, 0), Event("complete", 0, 0)>>

\* the place of event e in ExpectedLog (0: not in it)
Place(e) ==
    IF e.clip = 0
    THEN CASE e = Event("download", 0, 0) -> 1
           [] e = Event("highlights", 0, 0) -> 2
           [] e = Event("cleanup", 0, 0) -> 2 + 5 * Len(highlights) + 1
           [] e = Event("complete", 0, 0) -> 2 + 5 * Len(highlights) + 2
           [] OTHER -> 0
    ELSE IF /\ e.clip \in DOMAIN highlights
            /\ e.hl = highlights[e.clip]
            /\ \E s \in DOMAIN Steps : Steps[s] = e.stage
         THEN 2 + 5 * (e.clip - 1) + (CHOOSE s \in DOMAIN Steps : Steps[s] = e.stage)
         ELSE 0

\* C10: the stages happen in the order download, highlight selection, clip
\* chains, cleanup, none twice; the chains are those of the accepted highlights,
\* in the selector's order, at most num_clips of them, each at most once; in a
\* clip the steps follow each other in the order cut, portrait, hook, captions,
\* metadata, before any step of the next clip; and a run that completes without
\* a poll having seen cancellation has run the full chain of every accepted
\* highlight exactly once.
C10_StageOrder ==
    /\ \A k \in DOMAIN log : Place(log[k]) # 0
    /\ \A a, b \in DOMAIN log : a < b => Place(log[a]) < Place(log[b])
    /\ \A k \in DOMAIN log :
          (log[k].clip # 0 /\ log[k].stage # "cut") =>
              (k > 1 /\ Place(log[k - 1]) = Place(log[k]) - 1)
    /\ Len(highlights) <= num_clips
    /\ \A a, b \in DOMAIN highlights : a < b => highlights[a] < highlights[b]
    /\ (cancelSeenAt = {} /\ log # <<>> /\ log[Len(log)].stage = "complete")
          => log = ExpectedLog

\* a run of three clips that completed
C10_Witness ==
    /\ pc = "ended"
    /\ Len(highlights) = 3
    /\ log = ExpectedLog
    /\ reports = <<"on_complete">>

\* log events that are the first external work of a stage: the downloader calls
\* and the completion request
StageWork == {"download", "highlights"}

\* C11: every stage is gated by a poll: from a state in which the cancellation
\* flag is already set, no stage starts its work (no downloader call, no
\* completion request, no clip directory).
C11_StagesGated ==
    [][cancelled =>
          /\ (Len(log') > Len(log) => log'[Len(log')].stage \notin StageWork)
          /\ \A j \in ClipIds : clips'[j].dir => clips[j].dir]_vars

\* C12: in the download loop every read of a line follows a poll that found the
\* flag clear; a poll that finds it set terminates the downloader, waits for it
\* and raises the cancellation error, and then no highlight selection, no clip
\* step and no completion report happens in that run.
C12_DownloadCancel ==
    /\ []("download" \in cancelSeenAt =>
            /\ downloader = "reaped"
            /\ pc \in {"raised", "ended"}
            /\ err = "Cancelled by user"
            /\ highlights = <<>>
            /\ \A e \in DOMAIN log : log[e].stage = "download"
            /\ \A j \in ClipIds : ~clips[j].dir
            /\ "on_complete" \notin {reports[k] : k \in DOMAIN reports})
    /\ [][(pc' = "dl_read" /\ pc # "dl_read") => (pc = "dl_poll" /\ ~cancelled)]_vars
    /\ [][(pc = "dl_poll" /\ cancelled /\ pc' # pc) => "download" \in cancelSeenAt']_vars

\* cancelled after some progress lines of the downloader; the run was reported
\* as cancelled
C12_Witness ==
    /\ "download" \in cancelSeenAt
    /\ last_progress # <<>>
    /\ downloader = "reaped"
    /\ pc = "ended"
    /\ reports = <<"on_cancelled">>

\* positions of the worker at the external invocations of the clip chain: cut,
\* frame passes and portrait merge, hook build, main re-encode, the two
\* concatenations, caption burn
InvocationPcs == {"cut", "convert_to_portrait", "hook_build", "hook_reencode",
                  "hook_concat", "hook_fallback", "cap_burn"}

\* C13: an external invocation of the clip chain observes cancellation: with the
\* flag set, the invocation at hand does not run to its normal end and on to the
\* rest of the chain; the worker leaves the chain instead.
C13_InvocationsObserveCancel ==
    [][(cancelled /\ pc \in InvocationPcs /\ pc' # pc) =>
          pc' \in {"loop", "returned", "raised"}]_vars

\* C14: at most one process() invocation is active at any time.
C14_SingleFlow == Cardinality({r \in Runs : threads[r] = "running"}) <= 1

\* C15: the usage counter is the sum of the reports of the current run, and the
\* flag a running worker sees is set exactly when cancellation was requested for
\* its own run.
C15_RunStateOwned ==
    /\ token_usage = applied
    /\ \A r \in Runs : threads[r] = "running" => (cancelled <=> r \in cancelReq)

\* end - start of a candidate, exactly, in milliseconds
duration_ms(h) == h.end_time - h.start_time

\* the places of the candidates that last at least 58 s
LongEnough == {k \in DOMAIN response : duration_ms(response[k]) >= 1000 * min_duration}

\* the places find_highlights has accepted
Accepted == {highlights[i] : i \in DOMAIN highlights}

\* C16: find_highlights accepts a candidate exactly when end - start >= 58 s,
\* until count candidates are accepted: the result is the first count candidates
\* of at least 58 s, each once.
C16_FilterRule ==
    pc = "selected" =>
        /\ Accepted = {k \in LongEnough :
                          Cardinality({j \in LongEnough : j <= k}) <= num_clips}
        /\ Len(highlights) = Cardinality(Accepted)
        /\ Len(highlights) <= num_clips

\* C17: every highlight find_highlights returns has end > start and
\* duration_seconds in [58, 120] (tenths of a second here).
C17_DurationRange ==
    pc = "selected" =>
        \A i \in DOMAIN highlights :
            LET h == response[highlights[i]]
            IN /\ h.end_time > h.start_time
               /\ 10 * min_duration <= duration_seconds[h]
               /\ duration_seconds[h] <= 1200

\* C18: the result of find_highlights is a subsequence of the response: its
\* elements are candidates of the response, in the order of the response.
C18_OrderKept ==
    pc = "selected" =>
        /\ \A i \in DOMAIN highlights : highlights[i] \in DOMAIN response
        /\ \A a, b \in DOMAIN highlights : a < b => highlights[a] < highlights[b]

\* two different candidates accepted around a rejected one
C18_Witness ==
    /\ pc = "selected"
    /\ Len(highlights) = 2
    /\ highlights = <<1, 3>>
    /\ response[1] # response[3]
    /\ ~accepted[response[2]]

\* C19: after a successful download without a subtitle file, when the poll after
\* the download finds the flag clear, process() raises before the transcript is
\* parsed: no completion request, no clip, no completion report.
C19_NoSubtitleFails ==
    (/\ downloader = "exited"
     /\ err # "Download failed!"
     /\ ~srt_path
     /\ pc # "after_download"
     /\ "after_download" \notin cancelSeenAt) =>
        /\ pc \in {"raised", "ended"}
        /\ err = "No Indonesian subtitle found!"
        /\ \A e \in DOMAIN log : log[e].stage = "download"
        /\ \A j \in ClipIds : ~clips[j].dir
        /\ "on_complete" \notin {reports[k] : k \in DOMAIN reports}

\* the run was reported as failed
C19_Witness ==
    /\ pc = "ended"
    /\ downloader = "exited"
    /\ ~srt_path
    /\ ~cancelled
    /\ err = "No Indonesian subtitle found!"
    /\ reports = <<"on_error">>

\* C20: when no candidate of the response survives the duration test and the
\* poll after the selection finds the flag clear, process() raises: no clip
\* directory, no clip step, no completion report.
C20_NoHighlightsFails ==
    (/\ \E e \in DOMAIN log : log[e].stage = "highlights"
     /\ highlights = <<>>
     /\ raisedIn # "find_highlights"
     /\ pc \notin {"find_highlights", "after_find"}
     /\ "after_find" \notin cancelSeenAt) =>
        /\ pc \in {"raised", "ended"}
        /\ err = "No valid highlights found!"
        /\ \A e \in DOMAIN log : log[e].clip = 0 /\ log[e].stage \in StageWork
        /\ \A j \in ClipIds : ~clips[j].dir /\ j \notin labelled
        /\ "on_complete" \notin {reports[k] : k \in DOMAIN reports}

\* the run was reported as failed
C20_Witness ==
    /\ pc = "ended"
    /\ srt_path
    /\ highlights = <<>>
    /\ ~cancelled
    /\ err = "No valid highlights found!"
    /\ reports = <<"on_error">>

(* ------------------------ claims on the crop planner ------------------ *)

\* the plan of a video of at least one frame is finished
Planned == planPc = "done" /\ raw_positions # <<>>

\* the number of frames of the video
frame_count == Len(raw_positions)

\* the frames (from 0) at which stabilize_positions started a shot
Shots == shot_starts(stabilized, 0)

\* the frame after the last one of shot k, for the shot starts `shots`
ShotEnd(shots, k) == IF k < Len(shots) THEN shots[k + 1] ELSE Len(stabilized)

\* C22: shot locking is idempotent: the shot-locking pass applied to its own
\* output (the finished plan) gives that output again.
C22_LockIdempotent == Planned => lock_shots(crop_positions) = crop_positions

\* no frame of the video has a detection
NoDetection == Planned /\ ~detected

\* C23: with no detection in any frame, every offset of the plan equals
\* (sourceWidth - cropWidth)/2.
C23_CentredExactly ==
    NoDetection => \A k \in DOMAIN crop_positions :
                       2 * crop_positions[k] = orig_w - crop_w

\* C23, amended: with no detection in any frame, every offset of the plan is
\* (sourceWidth - cropWidth)/2 cut to a whole pixel when the source is at least
\* as wide as the crop window, and 0 when it is narrower.
C23_CentredWholePixel ==
    NoDetection =>
        /\ Len(crop_positions) = frame_count
        /\ \A k \in DOMAIN crop_positions :
               crop_positions[k] = IF orig_w >= crop_w THEN (orig_w - crop_w) \div 2
                                   ELSE 0

\* several seconds without a detection, in a source where the centred offset is
\* not a whole number
C23_Witness ==
    /\ NoDetection
    /\ frame_count > min_shot_duration
    /\ orig_w > crop_w
    /\ (orig_w - crop_w) % 2 = 1

area(f) == f.w * f.h

\* C24: the target starts at the frame centre; a frame with face boxes sets it
\* to the horizontal centre of the first box of largest area; a frame without
\* one leaves the target, and so the raw offset, as it was.
C24_Tracking ==
    /\ []((planPc = "track" /\ crop_positions = <<>>) => current_target = orig_w)
    /\ [][(planPc = "track" /\ frames # <<>>) =>
            LET faces == Head(frames).faces
            IN IF faces = <<>>
               THEN /\ current_target' = current_target
                    /\ crop_positions # <<>> =>
                           crop_positions'[Len(crop_positions')]
                               = crop_positions[Len(crop_positions)]
               ELSE \E b \in DOMAIN faces :
                       /\ \A c \in DOMAIN faces : area(faces[c]) <= area(faces[b])
                       /\ \A c \in 1..(b - 1) : area(faces[c]) < area(faces[b])
                       /\ current_target' = 2 * faces[b].x + faces[b].w]_vars

\* a frame with a small box followed by two larger boxes of the same area has
\* set the target to the centre of the second box, and some of the frames after
\* it, all without a detection, have left the target and the offset there
C24_Witness ==
    /\ planPc = "track"
    /\ Len(frames) = 1
    /\ frames[1].faces = <<>>
    /\ frames[1].n < 100
    /\ current_target = 2 * 602 + 101
    /\ Len(crop_positions) > 2
    /\ crop_positions[Len(crop_positions)] = crop_positions[Len(crop_positions) - 1]
    /\ crop_positions[Len(crop_positions)] # crop_positions[1]

\* C25: a shot starts at frame i only when at least min_shot_duration frames
\* have passed since the start of the shot before it and the smoothed offset at
\* i is more than threshold away from the one at that start; so every shot but
\* the last has at least min_shot_duration frames, and the plan changes its
\* offset only where a shot starts.
C25_ShotBoundaries ==
    Planned =>
        LET shots == Shots
            changes == {i \in 1..(frame_count - 1) :
                           crop_positions[i] # crop_positions[i + 1]}
        IN /\ shots[1] = 0
           /\ \A k \in 2..Len(shots) :
                  /\ shots[k] - shots[k - 1] >= min_shot_duration
                  /\ Abs(stabilized[shots[k] + 1] - stabilized[shots[k - 1] + 1])
                         > threshold
           /\ changes \subseteq {shots[k] : k \in DOMAIN shots}

\* three shots, the last one shorter than the minimum
C25_Witness ==
    /\ Planned
    /\ LET shots == Shots
       IN /\ Len(shots) = 3
          /\ frame_count - shots[3] < min_shot_duration
          /\ crop_positions[1] # crop_positions[shots[2] + 1]

\* C26: the shots partition the frames, and every frame of a shot, the last
\* shot included, has the median of the smoothed offsets of that shot.
C26_ShotMedians ==
    Planned =>
        LET shots == Shots
        IN /\ Len(crop_positions) = Len(stabilized)
           /\ \A k \in DOMAIN shots :
                  LET first == shots[k] + 1
                      last == ShotEnd(shots, k)
                      shot_median == median(stabilized, first, last)
                  IN /\ first <= last
                     /\ \A i \in first..last : crop_positions[i] = shot_median

\* several shots of which the last is shorter than the minimum; a frame is
\* locked to an offset that is not its smoothed one
C26_Witness ==
    /\ Planned
    /\ crop_positions[frame_count] # crop_positions[1]
    /\ \E i \in DOMAIN crop_positions : crop_positions[i] # stabilized[i]
    /\ LET shots == Shots
       IN /\ Len(shots) >= 2
          /\ frame_count - shots[Len(shots)] < min_shot_duration
          /\ crop_positions[frame_count]
                 = median(stabilized, shots[Len(shots)] + 1, frame_count)

\* C27: stabilize_positions returns as many offsets as it was given, the empty
\* sequence included: one offset per analysed frame.
C27_SameLength ==
    planPc = "done" =>
        /\ Len(stabilized) = Len(raw_positions)
        /\ Len(crop_positions) = Len(raw_positions)

\* a video shorter than the smoothing window
C27_Witness ==
    /\ planPc = "done"
    /\ frame_count > 0
    /\ frame_count < window_size
    /\ Len(crop_positions) = frame_count

\* the raw offsets are c everywhere but at one frame
OneOutlier(c) ==
    /\ frame_count >= 3
    /\ Cardinality({i \in DOMAIN raw_positions : raw_positions[i] # c}) = 1

\* C28: for raw offsets of at least 3 frames that are constant but for one
\* frame, the plan is the plan of the constant sequence, wherever that frame is.
C28_OutlierResisted ==
    planPc = "done" =>
        \A c \in {raw_positions[i] : i \in DOMAIN raw_positions} :
            OneOutlier(c) =>
                crop_positions = stabilize_positions(Repeat(c, frame_count))

\* three frames with the outlier in the middle
C28_Witness ==
    /\ planPc = "done"
    /\ frame_count = 3
    /\ raw_positions[1] = raw_positions[3]
    /\ raw_positions[2] # raw_positions[1]
    /\ crop_positions = Repeat(raw_positions[1], 3)

(* --------------------- claims on the message reading ------------------ *)

\* find_highlights has returned or raised
Read == pc \in {"selected", "raised"}

\* the JSON arrays the message holds
Arrays == {content[k].array : k \in {m \in DOMAIN content : content[m].t = "array"}}

\* the message is one JSON array, alone or between white space
IsJson == \E a \in Arrays : content \in {<<ArrayToken(a)>>, <<Space, ArrayToken(a), Space>>}

\* the message is one JSON array in a fenced code block
IsFenced ==
    \E a \in Arrays :
        content \in {<<Fence, Json, Space, ArrayToken(a), Space, Fence>>,
                     <<Fence, Space, ArrayToken(a), Space, Fence>>}

\* every object of the message has every required field
AllFields == \A a \in Arrays : \A k \in DOMAIN a : a[k].keys = Keys

\* C21: find_highlights raises when the message is not valid JSON or an object
\* lacks one of start_time, end_time, title, reason, hook_text; an array of
\* complete objects in a fenced code block is accepted.
C21_MalformedRejected ==
    Read =>
        /\ (~(IsJson \/ IsFenced) \/ ~AllFields) => pc = "raised"
        /\ (IsFenced /\ AllFields) => pc = "selected"

(* --------------------- claims on the caption timeline ----------------- *)

\* create_ass_subtitle_capcut has written the events
CaptionsWritten == pc = "written"

\* the first word of the chunk that holds word number w
ChunkFirst(w) == ((w - 1) \div chunk_size) * chunk_size + 1

\* the event of word number w shows the words of its chunk, in order, with
\* word w and no other marked
ChunkShown(w) ==
    LET first == ChunkFirst(w)
        last == Min(first + chunk_size - 1, Len(transcript))
        text == events[w].text
    IN /\ Len(text) = last - first + 1
       /\ \A p \in DOMAIN text :
              /\ text[p].word = shown(transcript[first + p - 1].word)
              /\ text[p].mark <=> (first + p - 1 = w)

\* C29: with word-level timestamps there is one event per word, in word order;
\* the event of a word spans the word's start and end, each shifted by exactly
\* time_offset, and shows the words of the word's chunk with that word marked.
\* (A written time is in centiseconds, the times of the words and the offset
\* are in milliseconds.)
C29_WordEvents ==
    CaptionsWritten =>
        /\ Len(events) = Len(transcript)
        /\ \A w \in DOMAIN events :
               /\ 10 * events[w].start = transcript[w].start + time_offset
               /\ 10 * events[w].end = transcript[w].end + time_offset
               /\ ChunkShown(w)

\* C30: the events of a chunk are time-monotonic and do not overlap: an event
\* does not end before it starts, and the next event of the chunk does not start
\* before it ends.
C30_EventsOrdered ==
    CaptionsWritten =>
        \A w \in DOMAIN events :
            /\ events[w].start <= events[w].end
            /\ (w < Len(events) /\ ChunkFirst(w + 1) = ChunkFirst(w)) =>
                   events[w].end <= events[w + 1].start

(* ------------------------ claims on the hook composer ----------------- *)

\* C31: in add_hook the stream-copy concatenation is always attempted first;
\* the filter-graph concatenation is attempted exactly when the stream copy
\* reported failure, never when it succeeded; the hook build and the re-encode
\* of the main clip both precede either concatenation.
C31_ConcatOrder ==
    /\ [][(pc' = "hook_reencode" /\ pc # pc') => pc = "hook_build"]_vars
    /\ [][(pc' = "hook_concat" /\ pc # pc') => pc = "hook_reencode"]_vars
    /\ [][(pc' = "hook_fallback" /\ pc # pc') => (pc = "hook_concat" /\ concat_rc' # 0)]_vars
    /\ [][(pc = "hook_concat" /\ pc # pc') =>
             /\ pc' \in {"hook_fallback", "hook_cleanup"}
             /\ pc' = "hook_fallback" <=> concat_rc' # 0]_vars
    /\ [][(pc' = "hook_cleanup" /\ pc # pc') =>
             \/ pc = "hook_concat" /\ concat_rc' = 0
             \/ pc = "hook_fallback" /\ concat_rc # 0]_vars

\* the stream copy of a built hook and a re-encoded main clip has failed and the
\* filter graph is about to run
C31_Witness ==
    /\ pc = "hook_fallback"
    /\ concat_rc # 0
    /\ hook_video = "present"
    /\ main_reencoded = "present"

\* positions of the worker in add_hook after the hook segment was built
BuiltPcs == {"hook_reencode", "hook_concat", "hook_fallback", "hook_cleanup"}

\* positions of the worker in add_captions_api after its entry
CaptionPcs == {"cap_check", "cap_transcribe", "cap_burn"}

\* C32: the time offset of a clip's caption timeline is the hook duration that
\* add_hook returned for that clip, which is the duration the hook segment was
\* built with: the probed duration of the speech plus the padding, or the
\* default when the probe shows none.
C32_OffsetIsHookDuration ==
    /\ pc \in BuiltPcs \cup {"step4", "add_captions_api", "clip_done"} \cup CaptionPcs =>
          /\ hook_built = hook_duration
          /\ hook_duration \in {d + hook_padding : d \in SpeechDurations}
                                  \cup {default_hook_duration}
    /\ pc \in CaptionPcs \cup {"clip_done"} =>
          /\ time_offset = hook_duration
          /\ time_offset = hook_built

\* the captions of the second clip are about to be burnt, after a probed hook
\* duration
C32_Witness ==
    /\ pc = "cap_burn"
    /\ index = 2
    /\ time_offset = 2700 + hook_padding
    /\ hook_built = time_offset

(* ------------------------ claims on the metadata record --------------- *)

\* the chain of clip j ran through its last step, the captions, and returned
ChainCompleted(j) ==
    /\ j < index
    /\ \E e \in DOMAIN log : log[e].clip = j /\ log[e].stage = "captions"

\* C33: every clip whose chain completes has one metadata record in its
\* directory, next to the finished media file, with the title, start_time,
\* end_time and duration_seconds of the accepted highlight the clip was made
\* from; the record is written only after the final media file was produced, so
\* that a directory with a record always holds a finished media file.
C33_MetadataRecord ==
    /\ [](\A j \in ClipIds :
            /\ ChainCompleted(j) => clips[j].data
            /\ clips[j].data =>
                  /\ clips[j].dir
                  /\ clips[j].master # "absent"
                  /\ j \in DOMAIN highlights
                  /\ clips[j].record = highlights[j]
                  /\ Cardinality({e \in DOMAIN log :
                                     log[e].clip = j /\ log[e].stage = "metadata"}) = 1)
    /\ [][\A j \in ClipIds :
            (clips'[j].data /\ ~clips[j].data) => clips[j].master # "absent"]_vars

\* the run has ended with two records, each of its own highlight, the second
\* clip made from the third candidate of the response
C33_Witness ==
    /\ pc = "ended"
    /\ highlights = <<1, 3>>
    /\ \A j \in 1..2 : clips[j].data /\ clips[j].record = highlights[j]
    /\ \A j \in 1..2 : clips[j].master = "present"

(* ------------------- claims on the lines of the hook text ------------- *)

\* the words of a line
LineWords(line) == split(line)

\* the words of the lines k.., in order
RECURSIVE WordsFrom(_, _)
WordsFrom(ls, k) == IF k > Len(ls) THEN <<>> ELSE LineWords(ls[k]) \o WordsFrom(ls, k + 1)

\* the words of the hook text, upper-cased one by one
UpperWords ==
    LET ws == split(hook_text)
    IN [k \in DOMAIN ws |-> upper_word(ws[k])]

\* C34: every line of the hook text has between 1 and 3 words, every line but
\* the last has exactly 3, and the lines joined in order are the upper-cased
\* words of the hook text in their order: no word lost, doubled or moved.
C34_HookLines ==
    pc = "wrapped" =>
        /\ \A k \in DOMAIN lines :
              /\ 1 <= Len(LineWords(lines[k]))
              /\ Len(LineWords(lines[k])) <= 3
              /\ k < Len(lines) => Len(LineWords(lines[k])) = 3
        /\ WordsFrom(lines, 1) = UpperWords

\* a text of seven words with white space around it: two full lines and a last
\* line of one word
C34_Witness ==
    /\ pc = "wrapped"
    /\ Len(lines) = 3
    /\ Len(split(hook_text)) = 7
    /\ Head(hook_text) = Blank
    /\ lines[3] = <<"KAMU">>
    /\ lines[1] = <<"AKAN", Blank, "PERCAYA", Blank, "KAMU">>

(* ------------------- claims on the fractions of the clips ------------- *)

\* a <= b for floats >= 0
float_leq(a, b) == ~float_less(b, a)

\* C35: in the clip phase of a run with N clips the fraction of step s of clip
\* i is 0.3 + 0.6 * ((i - 1) + s/4) / N; hence the fractions never decrease,
\* stay within [0.3, 0.9], and the fraction reported at "Done" of clip i is the
\* one reported at the first step of clip i + 1.
C35_ClipFractions ==
    /\ \A k \in DOMAIN progress :
          /\ float_leq(float_of_decimal(300), progress[k])
          /\ float_leq(progress[k], float_of_decimal(900))
    /\ Len(progress) = 2 => float_leq(progress[1], progress[2])
    /\ (pc = "step2" /\ index > 1) => progress[1] = progress[2]

(* ------------------------ claims on the end of a run ------------------ *)

\* C36: every run started from the UI eventually delivers exactly one terminal
\* notification (on_complete, on_cancelled or on_error) to the UI thread, after
\* which the processing flag is false and the Back button is enabled, whenever
\* the user confirms cancellation.
C36_RunNotified ==
    <>[](/\ Len(notified) = 1
         /\ after_queue = <<>>
         /\ ~processing
         /\ back_btn = "normal")

\* the poll points inside process_clip
ClipPolls == {"clip_entry", "step1", "step2", "step3", "step4"}

\* C37: "Complete!" with fraction 1.0 and the "Created N clips" line are emitted
\* only when every one of the N accepted highlights has its finished media file
\* and its metadata record, and never in a run in which the chain of a clip
\* returned early because cancellation was observed.
C37_CompleteMeansAll ==
    (\E e \in DOMAIN log : log[e].stage = "complete") =>
        /\ progress[Len(progress)] = Frac(1, 1)
        /\ \A j \in DOMAIN highlights : clips[j].master # "absent" /\ clips[j].data
        /\ cancelSeenAt \cap ClipPolls = {}

(* ------------------ claims on cancellation and the reports ------------ *)

\* C38: a confirmed cancellation request is never lost: from the moment the
\* user confirms cancel for a run until the worker thread of that run has ended,
\* the predicate that worker polls reads true, whatever else the user does in
\* the window.
C38_CancelKept ==
    \A r \in Runs : (r \in cancelReq /\ threads[r] = "running") => is_cancelled

\* the terminal callbacks of the run, as a set
Reported == {reports[k] : k \in DOMAIN reports}

\* C39: a run is reported as cancelled only if the user confirmed cancellation
\* during that run; an error raised by a stage or a collaborator while the
\* cancellation flag is false is always reported through on_error, whatever the
\* text of its message.
C39_CancelledOnlyIfConfirmed ==
    /\ "on_cancelled" \in Reported => cancelled
    /\ (pc = "ended" /\ raisedIn # "" /\ ~flagAtEnd) => reports = <<"on_error">>

====
